---- MODULE Spec2Model ----
(***************************************************************************)
(* A model of py_XRF: the DP5 acquisition worker (workers/dp5_worker.py),  *)
(* the DP5 controller (controllers/dp5_controller.py), the Mini-X source   *)
(* controller (controllers/minix_controller.py), the sequence orchestrator *)
(* (logic/sequence_manager.py) and the main window's signal wiring         *)
(* (main_app.py).                                                          *)
(*                                                                         *)
(* Every method of the cooperative (GUI-thread) side is an operator from a *)
(* state record to a state record, so that a Qt direct-connected signal is *)
(* simply a nested call of its slots.  The worker's run() executes on its  *)
(* own thread and is cut into steps at its hardware calls; its signals     *)
(* reach the controller through the queue of the GUI thread's event loop.  *)
(* The outcome of every vendor-DLL call is a nondeterministic choice.      *)
(***************************************************************************)
EXTENDS Integers, Sequences, FiniteSets, TLC

\* ------------------------------------------------------------------ bounds
MaxWorkers == 2     \* worker objects created in one session
MaxQueue == 2       \* worker signals waiting in the GUI thread's event queue
MaxPending == 2     \* single-shot _run_next_step timers not yet fired
MaxStack == 2       \* nested _wait_with_events calls
MaxReps == 2        \* repetitions a sequence can be started with
MaxRuns == 1        \* runs (of either orchestrator) in one session
MaxAcqRuns == 2     \* single-acquisition runs under arbitrary callers
MaxRunsAgain == 2   \* sequence runs in a session that starts a further run
MaxStarts == 2      \* runs started by start handlers called in any state
MaxCount == 2       \* largest content of the device's spectrum memory

Slots == 1..MaxWorkers
NoWorker == 0

\* --------------------------------------------------------------- variables
VARIABLES
    wk,                 \* per slot: one DP5AcquisitionWorker object and its run()
    queue,              \* queued worker signals, in posting order
    devMCA,             \* analyzer armed  (status RAW[35] bit 5)
    devPreset,          \* preset mode the device holds: "timed" or "off"
    devSpectrum,        \* content of the device's spectrum memory
    payloads,           \* arrays carried by the queued spectrum_ready signals
    spectrum_data,      \* the array the receiver holds (_last_spectrum_data)
    statuses,           \* structs carried by the queued status_ready signals
    status_data,        \* the struct the receiver holds (_last_status_data)
    is_connected,       \* DP5Controller._is_connected
    is_acquiring,       \* DP5Controller._is_acquiring
    worker,             \* DP5Controller._worker   (slot, or NoWorker)
    thread,             \* DP5Controller._thread   (slot, or NoWorker)
    last_config_file,   \* DP5Controller._last_config_file is set
    last_spectrum_data, \* DP5Controller._last_spectrum_data is set
    last_status_data,   \* DP5Controller._last_status_data is set
    is_controller_app_running, \* MiniXController._is_controller_app_running
    minix_connected,    \* MiniXController._is_connected
    hv_on,              \* MiniXController._hv_on (from the last monitor read)
    monitoring,         \* MiniXController._monitor_timer is active
    devHV,              \* the tube's high voltage is on
    seq_running,        \* SequenceManager._running
    error_reason,       \* SequenceManager._error_reason ("" = none)
    current_rep,        \* SequenceManager._current_rep
    total_reps,         \* SequenceManager._total_reps
    duration,           \* SequenceManager._duration: "pos" (> 0) or "nonpos"
    minix_continuous,   \* SequenceManager._minix_continuous
    save_folder,        \* SequenceManager._save_folder names a directory
    pending,            \* QTimer.singleShot(_run_next_step) timers not yet fired
    stack,              \* _wait_with_events calls in progress, innermost last
    runs,               \* sequence runs started so far
    acq_running,        \* SingleAcquisitionManager._running
    acq_error_reason,   \* SingleAcquisitionManager._error_reason ("" = none)
    acq_duration,       \* SingleAcquisitionManager._duration: "pos" or "nonpos"
    acq_save_filepath,  \* SingleAcquisitionManager._save_filepath is not empty
    spectrum_saved_successfully, \* SingleAcquisitionManager, same name
    acq_runs,           \* single-acquisition runs started so far
    ev,                 \* what the latest step emitted and called, in order
    obs,                \* observations about the current sequence run
    aobs                \* observations about the current single-acquisition run

vars == <<wk, queue, devMCA, devPreset, devSpectrum, payloads, spectrum_data,
          statuses, status_data,
          is_connected, is_acquiring, worker,
          thread, last_config_file, last_spectrum_data, last_status_data,
          is_controller_app_running, minix_connected, hv_on, monitoring, devHV,
          seq_running, error_reason, current_rep, total_reps, duration,
          minix_continuous, save_folder, pending, stack, runs, acq_running,
          acq_error_reason, acq_duration, acq_save_filepath,
          spectrum_saved_successfully, acq_runs, ev, obs, aobs>>

State ==
    [wk |-> wk, queue |-> queue, devMCA |-> devMCA, devPreset |-> devPreset,
     devSpectrum |-> devSpectrum, payloads |-> payloads,
     spectrum_data |-> spectrum_data,
     statuses |-> statuses, status_data |-> status_data,
     is_connected |-> is_connected, is_acquiring |-> is_acquiring,
     worker |-> worker, thread |-> thread,
     last_config_file |-> last_config_file,
     last_spectrum_data |-> last_spectrum_data,
     last_status_data |-> last_status_data,
     is_controller_app_running |-> is_controller_app_running,
     minix_connected |-> minix_connected, hv_on |-> hv_on,
     monitoring |-> monitoring, devHV |-> devHV,
     seq_running |-> seq_running, error_reason |-> error_reason,
     current_rep |-> current_rep, total_reps |-> total_reps,
     duration |-> duration, minix_continuous |-> minix_continuous,
     save_folder |-> save_folder, pending |-> pending, stack |-> stack,
     runs |-> runs, acq_running |-> acq_running,
     acq_error_reason |-> acq_error_reason, acq_duration |-> acq_duration,
     acq_save_filepath |-> acq_save_filepath,
     spectrum_saved_successfully |-> spectrum_saved_successfully,
     acq_runs |-> acq_runs, ev |-> ev, obs |-> obs, aobs |-> aobs]

Commit(r) ==
    /\ wk' = r.wk
    /\ queue' = r.queue
    /\ devMCA' = r.devMCA
    /\ devPreset' = r.devPreset
    /\ devSpectrum' = r.devSpectrum
    /\ payloads' = r.payloads
    /\ spectrum_data' = r.spectrum_data
    /\ statuses' = r.statuses
    /\ status_data' = r.status_data
    /\ is_connected' = r.is_connected
    /\ is_acquiring' = r.is_acquiring
    /\ worker' = r.worker
    /\ thread' = r.thread
    /\ last_config_file' = r.last_config_file
    /\ last_spectrum_data' = r.last_spectrum_data
    /\ last_status_data' = r.last_status_data
    /\ is_controller_app_running' = r.is_controller_app_running
    /\ minix_connected' = r.minix_connected
    /\ hv_on' = r.hv_on
    /\ monitoring' = r.monitoring
    /\ devHV' = r.devHV
    /\ seq_running' = r.seq_running
    /\ error_reason' = r.error_reason
    /\ current_rep' = r.current_rep
    /\ total_reps' = r.total_reps
    /\ duration' = r.duration
    /\ minix_continuous' = r.minix_continuous
    /\ save_folder' = r.save_folder
    /\ pending' = r.pending
    /\ stack' = r.stack
    /\ runs' = r.runs
    /\ acq_running' = r.acq_running
    /\ acq_error_reason' = r.acq_error_reason
    /\ acq_duration' = r.acq_duration
    /\ acq_save_filepath' = r.acq_save_filepath
    /\ spectrum_saved_successfully' = r.spectrum_saved_successfully
    /\ acq_runs' = r.acq_runs
    /\ ev' = r.ev
    /\ obs' = r.obs
    /\ aobs' = r.aobs

\* ------------------------------------------------------------ worker object
\* pc: "none" no object; "created" thread started, run() not entered; then the
\* places of run(); "post_finish" finished emitted, line 226 not yet reached.
\* The fields from nfin on only observe the run, they steer nothing.
NewWorker(cfg, preset, buf) ==
    [pc |-> "created", running |-> FALSE, acq_started |-> FALSE,
     config_ok |-> TRUE, cfg |-> cfg, preset |-> preset, buf |-> buf,
     data |-> 0, sbuf |-> 0,
     nfin |-> 0, afterfin |-> FALSE, td |-> "none",
     stopped |-> FALSE, iters |-> 0,
     zero |-> FALSE, zspec |-> 0, ziter |-> 0, zfinal |-> "none"]

\* An array: of = NoWorker, it owns its content val; of = w, it is a view on
\* the DATA of the _spectrum_buffer of the worker in slot w.  NoArray: None.
\* A status struct likewise: of = w, it shares the memory of the
\* _status_buffer of the worker in slot w, and val is what it showed when it
\* was published.
NoArray == [of |-> NoWorker, val |-> -1]

NoObject == [NewWorker(FALSE, "off", TRUE) EXCEPT !.pc = "none"]

NoObs ==
    [hv_req |-> FALSE,    \* request_safe_hv_on was emitted for this run
     hv_sent |-> FALSE,   \* an HV-on command was accepted for this run
     hv_off |-> FALSE,    \* set_hv_off was called since the last HV-on request
     ab |-> FALSE,        \* _abort_sequence ran after an HV-on request
     nterm |-> 0,         \* terminal events emitted for this run (2 = more)
     valid |-> FALSE,     \* start_sequence found nothing wrong
     open |-> FALSE,      \* an acquisition this run started is still going on
     done |-> 0,          \* acquisitions this run started and saw complete
     saved |-> 0,         \* save_last_spectrum calls of this run that succeeded
     hv_ab |-> FALSE,     \* the latest HV-on request of the run aborted the run
     phase |-> "none",    \* the latest step of the run's current repetition
     last_saved |-> 0,    \* the repetition index of the run's latest save
     own |-> 0]           \* _run_next_step timers this run scheduled, less the
                          \* _run_next_step calls that advanced it (-1: fewer)

\* What a single-acquisition run has emitted and done so far.
NoAcqObs ==
    [started |-> FALSE,   \* acquisition_started was emitted
     nab |-> 0,           \* acquisition_aborted events (2 = more than one)
     nfin |-> 0,          \* acquisition_finished events (2 = more than one)
     fin_ok |-> FALSE,    \* an acquisition_finished(True) among them
     ab_late |-> FALSE,   \* an acquisition_aborted after acquisition_finished
     acq_abort |-> FALSE, \* aborted while the spectrometer was acquiring
     stop_req |-> FALSE,  \* that abort called the controller's stop_acquisition
     err |-> FALSE,       \* an abort or an error was recorded for the run
     clean |-> FALSE,     \* acquiring went false with nothing recorded
     saves |-> 0,         \* save_last_spectrum calls (2 = more than one)
     save_ok |-> FALSE]   \* the last of them returned success

Init ==
    /\ wk = [w \in Slots |-> NoObject]
    /\ queue = <<>>
    /\ devMCA = FALSE
    /\ devPreset = "off"
    /\ devSpectrum = 0
    /\ payloads = <<>>
    /\ spectrum_data = NoArray
    /\ statuses = <<>>
    /\ status_data = NoArray
    /\ is_connected = FALSE
    /\ is_acquiring = FALSE
    /\ worker = NoWorker
    /\ thread = NoWorker
    /\ last_config_file = FALSE
    /\ last_spectrum_data = FALSE
    /\ last_status_data = FALSE
    /\ is_controller_app_running \in BOOLEAN
    /\ monitoring = is_controller_app_running
    /\ minix_connected = FALSE
    /\ hv_on = FALSE
    /\ devHV = FALSE
    /\ seq_running = FALSE
    /\ error_reason = ""
    /\ current_rep = 0
    /\ total_reps = 0
    /\ duration = "nonpos"
    /\ minix_continuous = FALSE
    /\ save_folder = FALSE
    /\ pending = 0
    /\ stack = <<>>
    /\ runs = 0
    /\ acq_running = FALSE
    /\ acq_error_reason = ""
    /\ acq_duration = "nonpos"
    /\ acq_save_filepath = FALSE
    /\ spectrum_saved_successfully = FALSE
    /\ acq_runs = 0
    /\ ev = <<>>
    /\ obs = NoObs
    /\ aobs = NoAcqObs

Min(a, b) == IF a < b THEN a ELSE b

\* ----------------------------------------------------- worker: run() steps
\* Signals whose slot in the controller changes state travel through the queue;
\* `message` only reaches the status bar and is counted, not queued.
\* dp5_api.RequestSpectrumData fills the worker's buffer from the device.
RequestSpectrumData(s, w) == [s EXCEPT !.wk[w].data = s.devSpectrum]

\* The array run() emits, taken without .copy(): a view on the buffer.
SpectrumNpView(s, w) == [of |-> w, val |-> 0]

\* spectrum_np of lines 178 and 188: as_array(DATA)[:num_channels].copy().
SpectrumNp(s, w) == [of |-> NoWorker, val |-> s.wk[w].data]

\* One signal emitted by run() of the worker in slot w.
Emit(s, w, kind) ==
    LET g == [s EXCEPT !.wk[w].afterfin = @ \/ s.wk[w].nfin > 0,
                       !.wk[w].nfin = IF kind = "finished" THEN Min(@ + 1, 2) ELSE @,
                       !.wk[w].zspec = IF kind = "spectrum" /\ s.wk[w].zero
                                       THEN Min(@ + 1, 2) ELSE @]
    IN  IF kind = "spectrum"
        THEN [g EXCEPT !.queue = Append(@, kind),
                       !.payloads = Append(@, SpectrumNp(g, w))]
        ELSE IF kind = "status"
        THEN [g EXCEPT !.queue = Append(@, kind),
                       !.wk[w].sbuf = s.devSpectrum,
                       !.statuses = Append(@, [of |-> w, val |-> s.devSpectrum])]
        ELSE IF kind \in {"error", "finished"}
        THEN [g EXCEPT !.queue = Append(@, kind)]
        ELSE g

\* WRunEnter with the buffer check returning without emitting finished.
WRunEnterNoFinished(s, w) ==
    IF ~s.wk[w].buf
    THEN [Emit(s, w, "error") EXCEPT !.wk[w].pc = "post_finish"]
    ELSE [s EXCEPT !.wk[w].running = TRUE, !.wk[w].acq_started = FALSE,
                   !.wk[w].config_ok = TRUE, !.wk[w].pc = "send_config"]

\* run(), lines 57-70: the initial checks, then _running = True.
WRunEnter(s, w) ==
    IF ~s.wk[w].buf
    THEN [Emit(Emit(s, w, "error"), w, "finished") EXCEPT !.wk[w].pc = "post_finish"]
    ELSE [s EXCEPT !.wk[w].running = TRUE, !.wk[w].acq_started = FALSE,
                   !.wk[w].config_ok = TRUE, !.wk[w].pc = "send_config"]

\* run(), lines 73-90: out is "ok" or "fail" (file missing, API error, exception).
WSendConfig(s, w, out) ==
    LET t == IF ~s.wk[w].cfg \/ out = "ok"
             THEN Emit(s, w, "message")
             ELSE [Emit(Emit(s, w, "message"), w, "error") EXCEPT !.wk[w].config_ok = FALSE]
    IN  [t EXCEPT !.wk[w].pc = "send_pret",
                  !.ev = Append(@, [e |-> "w_config", w |-> w,
                                    failed |-> s.wk[w].cfg /\ out # "ok"])]

\* WSendPret with every failure of the preset command fatal to the setup.
WSendPretAllFatal(s, w, out) ==
    LET t == IF ~s.wk[w].config_ok THEN s
             ELSE IF out = "ok"
             THEN [Emit(Emit(s, w, "message"), w, "message")
                     EXCEPT !.devPreset = s.wk[w].preset]
             ELSE [Emit(Emit(s, w, "message"), w, "error")
                     EXCEPT !.wk[w].config_ok = FALSE]
    IN  [t EXCEPT !.wk[w].pc = "enable",
                  !.ev = Append(@, [e |-> "w_pret", w |-> w,
                                    preset |-> s.wk[w].preset,
                                    failed |-> s.wk[w].config_ok /\ out # "ok"])]

\* run(), lines 92-122: "PRET=<t>;" for a positive preset time, else "PRET=OFF;".
WSendPret(s, w, out) ==
    LET t == IF ~s.wk[w].config_ok THEN s
             ELSE IF out = "ok"
             THEN [Emit(Emit(s, w, "message"), w, "message")
                     EXCEPT !.devPreset = s.wk[w].preset]
             ELSE [Emit(Emit(s, w, "message"), w, "error")
                     EXCEPT !.wk[w].config_ok = (s.wk[w].preset = "off")]
    IN  [t EXCEPT !.wk[w].pc = "enable",
                  !.ev = Append(@, [e |-> "w_pret", w |-> w,
                                    preset |-> s.wk[w].preset,
                                    failed |-> s.wk[w].config_ok /\ out # "ok"])]

\* run(), lines 124-149: EnableMCA; the loop's functions are always bound
\* (api/dp5_api.py binds all prototypes or exits), so line 149 is not reached.
WEnable(s, w, out) ==
    LET t == IF ~s.wk[w].config_ok
             THEN [Emit(s, w, "message") EXCEPT !.wk[w].acq_started = FALSE]
             ELSE IF out = "ok"
             THEN [Emit(Emit(s, w, "message"), w, "message")
                     EXCEPT !.devMCA = TRUE, !.wk[w].acq_started = TRUE]
             ELSE [Emit(Emit(s, w, "message"), w, "error")
                     EXCEPT !.wk[w].acq_started = FALSE]
    IN  [t EXCEPT !.wk[w].pc = "loop_top",
                  !.ev = Append(@, [e |-> "w_enable", w |-> w,
                                    called |-> s.wk[w].config_ok,
                                    raised |-> s.wk[w].config_ok /\ out # "ok"])]

\* run(), line 152: while self._running and acq_started.
WLoopTop(s, w) ==
    IF s.wk[w].running /\ s.wk[w].acq_started
    THEN [s EXCEPT !.wk[w].pc = "poll_status",
                   !.wk[w].iters = IF s.wk[w].stopped THEN Min(@ + 1, 2) ELSE @,
                   !.wk[w].ziter = IF s.wk[w].zero THEN 1 ELSE @,
                   !.ev = Append(@, [e |-> "w_loop", w |-> w,
                                     config_ok |-> s.wk[w].config_ok])]
    ELSE [s EXCEPT !.wk[w].pc = "teardown"]

\* WPollStatus with the completion branch leaving _running set.
WPollStatusKeepRunning(s, w, out) ==
    CASE out = "exc" -> [Emit(s, w, "error") EXCEPT !.wk[w].pc = "loop_top"]
      [] out = "attr" -> [Emit(s, w, "error") EXCEPT !.wk[w].running = FALSE,
                                                      !.wk[w].pc = "teardown"]
      [] OTHER ->
            IF s.devMCA
            THEN [Emit(s, w, "status") EXCEPT !.wk[w].pc = "poll_spec"]
            ELSE [Emit(Emit(s, w, "status"), w, "message")
                    EXCEPT !.wk[w].zero = TRUE,
                           !.wk[w].pc = "final_spec"]

\* run(), lines 153-171 and 193-196: the status read and the completion test.
\* out: "ok", "exc" (an Exception: reported, loop goes on) or "attr"
\* (an AttributeError: reported, loop left).
WPollStatus(s, w, out) ==
    CASE out = "exc" -> [Emit(s, w, "error") EXCEPT !.wk[w].pc = "loop_top"]
      [] out = "attr" -> [Emit(s, w, "error") EXCEPT !.wk[w].running = FALSE,
                                                      !.wk[w].pc = "teardown"]
      [] OTHER ->
            IF s.devMCA
            THEN [Emit(s, w, "status") EXCEPT !.wk[w].pc = "poll_spec"]
            ELSE [Emit(Emit(s, w, "status"), w, "message")
                    EXCEPT !.wk[w].running = FALSE, !.wk[w].zero = TRUE,
                           !.wk[w].pc = "final_spec"]

\* run(), lines 173-182: the final spectrum.  out: "ok" (0 < CHANNELS <=
\* MAX_BUFFER_DATA), "bad" (CHANNELS outside that range) or "exc".
WFinalSpec(s, w, out) ==
    LET t == CASE out = "ok" -> Emit(RequestSpectrumData(s, w), w, "spectrum")
               [] out = "bad" -> s
               [] OTHER -> Emit(s, w, "error")
    IN  [t EXCEPT !.wk[w].zfinal = out, !.wk[w].pc = "loop_top"]

\* run(), lines 184-196: the spectrum of a running acquisition, then the sleep.
WPollSpec(s, w, out) ==
    CASE out = "ok" -> [Emit(RequestSpectrumData(s, w), w, "spectrum")
                           EXCEPT !.wk[w].pc = "loop_top"]
      [] out = "bad" -> [s EXCEPT !.wk[w].pc = "loop_top"]
      [] out = "exc" -> [Emit(s, w, "error") EXCEPT !.wk[w].pc = "loop_top"]
      [] OTHER -> [Emit(s, w, "error") EXCEPT !.wk[w].running = FALSE,
                                               !.wk[w].pc = "teardown"]

\* WTeardown without the DisableMCA call.
WTeardownNoDisable(s, w, st, dis) ==
    LET enabled == IF st = "ok" THEN s.devMCA ELSE TRUE
        t == IF ~s.wk[w].acq_started THEN s
             ELSE IF ~enabled THEN [s EXCEPT !.wk[w].td = "clear"]
             ELSE s
    IN  [Emit(t, w, "finished") EXCEPT !.wk[w].pc = "post_finish"]

\* run(), lines 201-225: the last status read, DisableMCA if the bit is still
\* set (or the read failed), then finished.  st, dis: "ok" or "exc".
WTeardown(s, w, st, dis) ==
    LET enabled == IF st = "ok" THEN s.devMCA ELSE TRUE
        t == IF ~s.wk[w].acq_started THEN s
             ELSE IF ~enabled THEN [s EXCEPT !.wk[w].td = "clear"]
             ELSE IF dis = "ok"
             THEN [Emit(Emit(s, w, "message"), w, "message")
                     EXCEPT !.devMCA = FALSE, !.wk[w].td = "disable"]
             ELSE [Emit(Emit(s, w, "message"), w, "error")
                     EXCEPT !.wk[w].td = "disable_failed"]
    IN  [Emit(t, w, "finished") EXCEPT !.wk[w].pc = "post_finish"]

\* run(), line 226; run() has returned and the worker object plays no
\* further part.
WClearRunning(s, w) ==
    [s EXCEPT !.wk[w] = [NoObject EXCEPT !.pc = "done", !.sbuf = s.wk[w].sbuf]]

\* stop(), lines 228-233, called on the GUI thread.  Its "Stop requested."
\* message is emitted by stop() itself, not by run(), and reaches only the
\* status bar: it is not recorded among the emissions of run().
WorkerStop(s, w) ==
    IF s.wk[w].pc = "done" THEN s
    ELSE [s EXCEPT !.wk[w].running = FALSE, !.wk[w].stopped = TRUE]

\* ------------------------------------------------------- GUI-thread helpers
\* What the blocking and modal calls of one GUI-thread activation return is
\* a record o: the user's answer to the HV confirmation box (user), whether
\* the Mini-X gateway accepts an HV command (hv), whether SaveMCADataToFile
\* succeeds (save), whether the save folder is a directory (isdir), whether a
\* new worker's buffers get allocated (buf).
\* Every call succeeds and the user confirms.
OkOracle == [user |-> TRUE, hv |-> "ok", save |-> TRUE, isdir |-> TRUE, buf |-> TRUE]

\* A signal of SequenceManager is emitted: sequence_started,
\* sequence_step_starting(n, total), sequence_step_finished(n, total),
\* sequence_aborted(reason), sequence_finished(n).
Log(s, e, n) ==
    [s EXCEPT !.ev = Append(@, [e |-> e, n |-> n]),
              !.obs.nterm = IF e \in {"aborted", "finished"}
                            THEN Min(@ + 1, 2) ELSE @]

\* SequenceManager._wait_with_events: a nested event loop; what follows the
\* wait in the calling method is resumed by ResumeWait.
Push(s, kind) ==
    [s EXCEPT !.stack = Append(@, [k |-> kind, then |-> "none", run |-> s.runs])]

\* QThread.isRunning() of DP5Controller._thread.  The thread runs the default
\* QThread.run(), i.e. an event loop that nothing in the program quits, so a
\* started thread is running for as long as the controller refers to it.
ThreadIsRunning(s) == s.thread # NoWorker

\* DP5Controller._clear_thread_worker_refs
ClearThreadWorkerRefs(s) == [s EXCEPT !.worker = NoWorker, !.thread = NoWorker]

\* The lowest slot that has held no worker object yet, or NoWorker.
FreeSlot(s) ==
    IF \E w \in Slots : s.wk[w].pc = "none"
    THEN CHOOSE w \in Slots :
            /\ s.wk[w].pc = "none"
            /\ \A v \in Slots : s.wk[v].pc = "none" => w <= v
    ELSE NoWorker

\* The preset the sequence's duration makes the worker send (PRET=<t> or OFF).
PresetOf(d) == IF d = "pos" THEN "timed" ELSE "off"

RECURSIVE Signal(_, _, _, _)
RECURSIVE Observed(_, _, _)
RECURSIVE SetAcquiring(_, _, _)
RECURSIVE SeqAbort(_, _)
RECURSIVE AcqAbort(_, _)

\* DP5Controller._handle_worker_finished
HandleWorkerFinished(s, o) == SetAcquiring(s, FALSE, o)

\* DP5Controller.stop_acquisition; a call of the worker's stop() is recorded.
Dp5StopAcquisition(s, o) ==
    IF ~s.is_acquiring THEN s
    ELSE IF s.worker # NoWorker
    THEN WorkerStop([s EXCEPT !.ev = Append(@, [e |-> "worker_stop"])], s.worker)
    ELSE HandleWorkerFinished(s, o)

\* SequenceManager.stop_sequence
SeqStop(s, o) == IF s.seq_running THEN SeqAbort(s, o) ELSE s

\* SingleAcquisitionManager.stop_acquisition
AcqStop(s, o) == IF s.acq_running THEN AcqAbort(s, o) ELSE s

\* MainWindow.handle_dp5_error
MainHandleDp5Error(s, o) == AcqStop(SeqStop(s, o), o)

\* MainWindow.handle_minix_error
MainHandleMinixError(s, o) == SeqStop(s, o)

\* BaseController._report_error of the DP5 controller
Dp5ReportError(s, o) == Signal(s, "dp5.error_occurred", FALSE, o)

\* BaseController._report_error of the Mini-X controller
MinixReportError(s, o) == Signal(s, "minix.error_occurred", FALSE, o)

\* MiniXController.set_hv_off.  The controller's _hv_on is not touched: only
\* a monitor read changes it.
MinixSetHvOff(s, o) ==
    IF s.is_controller_app_running /\ o.hv = "ok"
    THEN [s EXCEPT !.obs.hv_off = TRUE, !.devHV = FALSE]
    ELSE MinixReportError([s EXCEPT !.obs.hv_off = TRUE], o)

\* MiniXController.set_hv_on
MinixSetHvOn(s, o) ==
    IF ~s.minix_connected THEN MinixReportError(s, o)
    ELSE IF o.hv = "ok"
    THEN [s EXCEPT !.devHV = TRUE, !.obs.hv_sent = TRUE, !.obs.hv_off = FALSE]
    ELSE MinixReportError(s, o)

\* MainWindow._safe_minix_hv_on
MainSafeHvOn(s, o) ==
    IF ~s.minix_connected THEN SeqStop(s, o)
    ELSE IF o.user THEN MinixSetHvOn(s, o)
    ELSE SeqStop(s, o)

\* ------------------------------------------------- sequence manager, part 1
\* SequenceManager._finalize, lines 231-241: the terminal event and the reset,
\* after the HV-off of continuous mode.  What the run looks like when
\* _finalize returns is recorded.
SeqFinalizeEmit(s2, was_running) ==
    LET final_reps == IF s2.current_rep > s2.total_reps
                      THEN s2.current_rep - 1 ELSE s2.current_rep
        s3 == IF s2.error_reason = "" /\ was_running
              THEN Log(s2, "finished", final_reps) ELSE s2
        Finalized(s) ==
            [e |-> "finalized", n |-> final_reps, cont |-> s.minix_continuous,
             err |-> s.error_reason # "", hv |-> s.hv_on, dev |-> s.devHV,
             req |-> s.obs.hv_req, sent |-> s.obs.hv_sent, off |-> s.obs.hv_off,
             ab |-> s.obs.ab, nterm |-> s.obs.nterm, valid |-> s.obs.valid,
             total |-> s.total_reps, done |-> s.obs.done, saved |-> s.obs.saved]
    IN  IF was_running
        THEN [s3 EXCEPT !.error_reason = "", !.obs = NoObs,
                        !.ev = Append(@, Finalized(s3))]
        ELSE [s3 EXCEPT !.error_reason = ""]

\* SequenceManager._finalize
SeqFinalize(s, o) ==
    IF ~s.seq_running /\ s.error_reason = "" THEN s
    ELSE SeqFinalizeEmit(IF s.minix_continuous /\ s.seq_running
                         THEN MinixSetHvOff([s EXCEPT !.seq_running = FALSE], o)
                         ELSE [s EXCEPT !.seq_running = FALSE],
                         s.seq_running)

\* The sequence manager takes a step of a repetition: "hv_on", "acq_start",
\* "acq_false", "save", "hv_off" or "pausing".  The step is recorded with
\* the step that came before it in the run.
SeqStepTo(s, step) ==
    [s EXCEPT !.ev = Append(@, [e |-> "seq_step", step |-> step,
                                from |-> s.obs.phase,
                                rep |-> s.current_rep,
                                cont |-> s.minix_continuous,
                                saved |-> s.obs.last_saved]),
              !.obs.phase = step,
              !.obs.last_saved = IF step = "save" THEN s.current_rep ELSE @]

\* _abort_sequence without its last line, the call of _finalize
SeqAbortNoFinalize(s, o) ==
    IF ~s.seq_running THEN s
    ELSE Dp5StopAcquisition(Log([s EXCEPT !.error_reason = "abort",
                                          !.obs.ab = @ \/ s.obs.hv_req],
                                "aborted", s.current_rep),
                            o)

\* SequenceManager._abort_sequence
SeqAbort(s, o) ==
    IF ~s.seq_running THEN s
    ELSE SeqFinalize(Dp5StopAcquisition(Log([s EXCEPT !.error_reason = "abort",
                                                      !.obs.ab = @ \/ s.obs.hv_req],
                                            "aborted", s.current_rep),
                                        o),
                     o)

\* A call of save_last_spectrum: whether a spectrum was cached, what became
\* of the SaveMCADataToFile call ("none": not made) and how the method ended.
SaveCall(s, gateway, ret) ==
    [s EXCEPT !.ev = Append(@, [e |-> "save_last_spectrum",
                                cached |-> s.last_spectrum_data,
                                gateway |-> gateway, ret |-> ret])]

\* _report_error as save_last_spectrum calls it: error_occurred is emitted.
SaveError(s, o) ==
    Dp5ReportError([s EXCEPT !.ev = Append(@, [e |-> "error_occurred"])], o)

\* save_last_spectrum without the check of the cache (lines 143-144).
Dp5SaveLastSpectrumNoCacheCheck(s, o) ==
    IF o.save THEN [s |-> SaveCall(s, "returned", "True"), ok |-> TRUE]
    ELSE [s |-> SaveError(SaveCall(s, "raised", "False"), o), ok |-> FALSE]

\* DP5Controller.save_last_spectrum: the new state and the truth of the value
\* returned.  Nothing cached: the value of _report_error, None.  o.save: the
\* try block ran through; otherwise an exception was caught at line 190/193.
Dp5SaveLastSpectrum(s, o) ==
    IF ~s.last_spectrum_data
    THEN [s |-> SaveError(SaveCall(s, "none", "None"), o), ok |-> FALSE]
    ELSE IF o.save THEN [s |-> SaveCall(s, "returned", "True"), ok |-> TRUE]
    ELSE [s |-> SaveError(SaveCall(s, "raised", "False"), o), ok |-> FALSE]

\* ------------------------------------------ single-acquisition manager, part 1
\* A signal of SingleAcquisitionManager is emitted: acquisition_started,
\* acquisition_aborted(reason), acquisition_finished(ok).
AcqLog(s, e, ok) ==
    [s EXCEPT !.ev = Append(@, [e |-> e, ok |-> ok]),
              !.aobs.started = @ \/ e = "acq_started",
              !.aobs.nab = IF e = "acq_aborted" THEN Min(@ + 1, 2) ELSE @,
              !.aobs.ab_late = @ \/ (e = "acq_aborted" /\ s.aobs.nfin > 0),
              !.aobs.nfin = IF e = "acq_finished" THEN Min(@ + 1, 2) ELSE @,
              !.aobs.fin_ok = @ \/ (e = "acq_finished" /\ ok)]

\* What a single-acquisition run looks like when its _finalize returns.
AcqFinalized(s) == [e |-> "acq_finalized", run |-> s.aobs]

\* _finalize without the early return of an idle manager (lines 155-157).
AcqFinalizeNoGuard(s) ==
    LET s1 == [s EXCEPT !.acq_running = FALSE]
        s2 == IF s1.acq_error_reason # "" \/ ~s1.spectrum_saved_successfully
              THEN AcqLog(AcqLog(s1, "acq_aborted", FALSE), "acq_finished", FALSE)
              ELSE AcqLog(s1, "acq_finished", TRUE)
    IN  [s2 EXCEPT !.acq_error_reason = "",
                   !.spectrum_saved_successfully = FALSE,
                   !.ev = Append(@, AcqFinalized(s2)),
                   !.aobs = NoAcqObs]

\* SingleAcquisitionManager._finalize
AcqFinalize(s) ==
    IF ~s.acq_running THEN s
    ELSE
      LET s1 == [s EXCEPT !.acq_running = FALSE]
          s2 == IF s1.acq_error_reason # "" \/ ~s1.spectrum_saved_successfully
                THEN AcqLog(AcqLog(s1, "acq_aborted", FALSE), "acq_finished", FALSE)
                ELSE AcqLog(s1, "acq_finished", TRUE)
      IN  [s2 EXCEPT !.acq_error_reason = "",
                     !.spectrum_saved_successfully = FALSE,
                     !.ev = Append(@, AcqFinalized(s2)),
                     !.aobs = NoAcqObs]

\* The worker stop() calls recorded in a step so far.
WorkerStops(s) == Cardinality({i \in 1..Len(s.ev) : s.ev[i].e = "worker_stop"})

\* _abort_acquisition without the assignment of _error_reason (line 191).
AcqAbortNoReason(s, o) ==
    IF ~s.acq_running THEN s
    ELSE
      LET s1 == AcqLog([s EXCEPT !.aobs.err = TRUE,
                                 !.aobs.acq_abort = @ \/ s.is_acquiring],
                       "acq_aborted", FALSE)
          Stopped(s2) ==
              IF ~s2.is_acquiring THEN AcqFinalize(s2)
              ELSE IF s2.acq_running /\ WorkerStops(s2) > WorkerStops(s1)
              THEN [s2 EXCEPT !.aobs.stop_req = TRUE]
              ELSE s2
      IN  IF s1.is_acquiring
          THEN Stopped(Dp5StopAcquisition(s1, o))
          ELSE AcqFinalize(s1)

\* SingleAcquisitionManager._abort_acquisition
AcqAbort(s, o) ==
    IF ~s.acq_running THEN s
    ELSE
      LET s1 == AcqLog([s EXCEPT !.acq_error_reason = "abort",
                                 !.aobs.err = TRUE,
                                 !.aobs.acq_abort = @ \/ s.is_acquiring],
                       "acq_aborted", FALSE)
          Stopped(s2) ==
              IF ~s2.is_acquiring THEN AcqFinalize(s2)
              ELSE IF s2.acq_running /\ WorkerStops(s2) > WorkerStops(s1)
              THEN [s2 EXCEPT !.aobs.stop_req = TRUE]
              ELSE s2
      IN  IF s1.is_acquiring
          THEN Stopped(Dp5StopAcquisition(s1, o))
          ELSE AcqFinalize(s1)

\* SingleAcquisitionManager._save_spectrum: the new state and the value
\* returned.  save_last_spectrum raises nothing, so line 147 is not reached.
AcqSaveSpectrum(s, o) ==
    IF ~s.acq_save_filepath
    THEN [s |-> [s EXCEPT !.acq_error_reason = "save", !.aobs.err = TRUE],
          ok |-> FALSE]
    ELSE
      LET Saved(r) ==
              IF r.ok
              THEN [s |-> [r.s EXCEPT !.aobs.save_ok = r.s.acq_running],
                    ok |-> TRUE]
              ELSE [s |-> [r.s EXCEPT !.acq_error_reason = "save",
                                      !.aobs.err = r.s.acq_running],
                    ok |-> FALSE]
      IN  Saved(Dp5SaveLastSpectrum([s EXCEPT !.aobs.saves = Min(@ + 1, 2)], o))

\* SingleAcquisitionManager._handle_dp5_acq_state_change
AcqHandleDp5AcqStateChange(s, acquiring, o) ==
    LET s0 == IF s.acq_running /\ ~s.aobs.err /\ ~acquiring
              THEN [s EXCEPT !.aobs.clean = TRUE] ELSE s
    IN  IF ~(s0.acq_running /\ s0.acq_error_reason = "" /\ ~acquiring) THEN s0
        ELSE
          LET Store(r) == [r.s EXCEPT !.spectrum_saved_successfully = r.ok]
          IN  AcqFinalize(Store(AcqSaveSpectrum(s0, o)))

\* SequenceManager._handle_dp5_acq_state_change, lines 198-211: pause before
\* the next repetition, or go on to the step that finalizes.
\* own: the handler was entered in the run that is current now.
SeqPauseOrProceed(s, own) ==
    LET Timer(s1) == [s1 EXCEPT !.pending = @ + 1,
                                !.obs.own = IF own THEN @ + 1 ELSE @]
    IN  IF s.current_rep < s.total_reps
        THEN Timer(SeqStepTo(s, "pausing"))
        ELSE Timer(s)

\* SequenceManager._handle_dp5_acq_state_change
SeqHandleDp5AcqStateChange(s, acquiring, o) ==
    IF ~(s.seq_running /\ s.error_reason = "" /\ ~acquiring) THEN s
    ELSE
      LET s1 == Log(SeqStepTo([s EXCEPT !.obs.open = FALSE,
                                        !.obs.done = IF s.obs.open THEN @ + 1 ELSE @],
                              "acq_false"),
                    "step_finished", s.current_rep)
      IN  IF ~(s1.save_folder /\ o.isdir) THEN SeqAbort(s1, o)
          ELSE
            LET Saved(r) ==
                    IF ~r.ok THEN SeqAbort(r.s, o)
                    ELSE IF ~r.s.minix_continuous
                    THEN Push(MinixSetHvOff(SeqStepTo(SeqStepTo([r.s EXCEPT !.obs.saved = @ + 1],
                                                                "save"),
                                                      "hv_off"), o),
                              "acq_changed")
                    ELSE SeqPauseOrProceed(SeqStepTo([r.s EXCEPT !.obs.saved = @ + 1],
                                                     "save"),
                                           TRUE)
            IN  Saved(Dp5SaveLastSpectrum(s1, o))

\* The controller's worker is inside the while loop of run(): it entered the
\* loop and has not yet found its condition false.
InPollLoop(s) ==
    /\ s.worker # NoWorker
    /\ s.wk[s.worker].acq_started
    /\ s.wk[s.worker].pc \in {"loop_top", "poll_status", "poll_spec", "final_spec"}

\* acquisition_state_changed reaches the slots of the two managers; what a
\* manager that is running can read of the controller is recorded.
Observed(s, acquiring, o) ==
    Signal(IF s.seq_running \/ s.acq_running
           THEN [s EXCEPT !.ev = Append(@, [e |-> "acq_state_observed",
                                            acquiring |-> acquiring,
                                            seq |-> s.seq_running,
                                            acq |-> s.acq_running,
                                            worker |-> s.worker,
                                            thread |-> s.thread,
                                            inloop |-> InPollLoop(s),
                                            flag |-> InPollLoop(s) /\
                                                     s.wk[s.worker].running])]
           ELSE s,
           "dp5.acquisition_state_changed handlers", acquiring, o)

\* DP5Controller._set_acquiring
SetAcquiring(s, acquiring, o) ==
    IF s.is_acquiring = acquiring THEN s
    ELSE Signal([s EXCEPT !.is_acquiring = acquiring],
                "dp5.acquisition_state_changed", acquiring, o)

\* A controller emits a signal whose slots change state; the slots run at
\* once, in the order of their connection.  acquisition_state_changed reaches
\* the sequence manager, then the single-acquisition manager, in the order in
\* which MainWindow.__init__ constructed (and so connected) them.
Signal(s, name, arg, o) ==
    CASE name = "dp5.acquisition_state_changed" ->
             Observed(s, arg, o)
      [] name = "dp5.acquisition_state_changed handlers" ->
             AcqHandleDp5AcqStateChange(SeqHandleDp5AcqStateChange(s, arg, o),
                                        arg, o)
      [] name = "dp5.error_occurred" -> MainHandleDp5Error(s, o)
      [] OTHER -> MainHandleMinixError(s, o)

\* ------------------------------------------------------------ DP5 controller
\* A gateway call made by the controller on the GUI thread.
Gateway(s, fn) == [s EXCEPT !.ev = Append(@, [e |-> "gateway", fn |-> fn])]

\* DP5Controller.request_single_status_update; st: "ok" | "fail"
Dp5RequestSingleStatusUpdate(s, st, o) ==
    IF ~s.is_connected \/ s.is_acquiring THEN s
    ELSE IF st = "ok"
    THEN [Gateway(s, "GetDppStatus")
            EXCEPT !.last_status_data = TRUE,
                   !.status_data = [of |-> NoWorker, val |-> s.devSpectrum]]
    ELSE Dp5ReportError(Gateway(s, "GetDppStatus"), o)

\* DP5Controller.connect; out: "ok" | "fail" (ConnectToDefaultDPP)
Dp5Connect(s, out, st, o) ==
    IF s.is_connected THEN s
    ELSE IF s.is_acquiring THEN Dp5ReportError(s, o)
    ELSE IF out = "ok"
    THEN Dp5RequestSingleStatusUpdate([s EXCEPT !.is_connected = TRUE], st, o)
    ELSE Dp5ReportError([s EXCEPT !.is_connected = FALSE], o)

\* DP5Controller.disconnect, after its stop_acquisition() and wait(500);
\* out: "ok" | "exc" (CloseConnection)
Dp5DisconnectTail(s, out, o) ==
    IF ~s.is_connected
    THEN IF s.is_acquiring THEN SetAcquiring(s, FALSE, o) ELSE s
    ELSE IF out = "ok"
    THEN [s EXCEPT !.is_connected = FALSE, !.last_spectrum_data = FALSE, !.spectrum_data = NoArray,
                   !.last_status_data = FALSE, !.status_data = NoArray]
    ELSE
      LET Forced(s1) ==
              LET Clear(s2) ==
                      IF Len(s2.stack) > Len(s1.stack)
                      THEN [s2 EXCEPT !.stack[Len(s2.stack)].then = "disc_clear"]
                      ELSE [s2 EXCEPT !.last_spectrum_data = FALSE, !.spectrum_data = NoArray,
                                      !.last_status_data = FALSE, !.status_data = NoArray]
              IN  Clear(SetAcquiring([s1 EXCEPT !.is_connected = FALSE], FALSE, o))
      IN  Forced(Dp5ReportError(s, o))

\* DP5Controller.disconnect
Dp5Disconnect(s, out, o) ==
    LET Left(s1) ==
            IF s.is_connected /\ s.is_acquiring
            THEN [s1 EXCEPT !.ev = Append(@, [e |-> "disconnect_while_acquiring",
                                              returned |-> Len(s1.stack) = Len(s.stack),
                                              connected |-> s1.is_connected,
                                              acquiring |-> s1.is_acquiring,
                                              worker |-> s1.worker,
                                              thread |-> s1.thread])]
            ELSE s1
    IN  Left(Dp5DisconnectTail(IF s.is_acquiring
                               THEN Dp5StopAcquisition(s, o) ELSE s,
                               out, o))

\* DP5Controller.load_config; path: the file exists; out: SendConfigFileToDpp
Dp5LoadConfig(s, path, out, st, o) ==
    IF ~s.is_connected \/ s.is_acquiring \/ ~path THEN Dp5ReportError(s, o)
    ELSE IF out = "ok"
    THEN Dp5RequestSingleStatusUpdate([Gateway(s, "SendConfigFileToDpp")
                                         EXCEPT !.last_config_file = TRUE], st, o)
    ELSE Dp5ReportError(Gateway(s, "SendConfigFileToDpp"), o)

\* DP5Controller.clear_data; out: "ok" | "exc" (ClearData)
Dp5ClearData(s, out, st, o) ==
    IF ~s.is_connected \/ s.is_acquiring THEN Dp5ReportError(s, o)
    ELSE IF out = "ok"
    THEN Dp5RequestSingleStatusUpdate([Gateway(s, "ClearData")
                                         EXCEPT !.last_spectrum_data = FALSE,
                                                !.spectrum_data = NoArray], st, o)
    ELSE Dp5ReportError(Gateway(s, "ClearData"), o)

\* What a start_acquisition call meets on entry.
CallMet(s) ==
    IF ~s.is_connected THEN "not_connected"
    ELSE IF s.is_acquiring THEN "busy"
    ELSE IF ThreadIsRunning(s) THEN "stale"
    ELSE IF FreeSlot(s) = NoWorker THEN "overflow"
    ELSE "spawned"

\* DP5Controller.start_acquisition, lines 100-117: a new thread and worker.
Dp5Spawn(s, preset, o) ==
    LET Started(s1) ==
            [s1 EXCEPT !.wk[FreeSlot(s1)] =
                           NewWorker(s1.last_config_file, preset, o.buf),
                       !.worker = FreeSlot(s1), !.thread = FreeSlot(s1)]
    IN  Started(SetAcquiring(ClearThreadWorkerRefs(s), TRUE, o))

\* start_acquisition without the check of line 95.
Dp5StartAcquisitionNoGuard(s, preset, o) ==
    LET s0 == [s EXCEPT !.ev = Append(@, [e |-> "start_acquisition", met |-> CallMet(s)])]
    IN  IF ~s0.is_connected THEN Dp5ReportError(s0, o)
        ELSE IF ThreadIsRunning(s0)
        THEN Dp5ReportError(ClearThreadWorkerRefs(Dp5StopAcquisition(s0, o)), o)
        ELSE IF FreeSlot(s0) = NoWorker THEN s0
        ELSE Dp5Spawn(s0, preset, o)

\* DP5Controller.start_acquisition
Dp5StartAcquisition(s, preset, o) ==
    LET s0 == [s EXCEPT !.ev = Append(@, [e |-> "start_acquisition", met |-> CallMet(s)])]
    IN  IF ~s0.is_connected THEN Dp5ReportError(s0, o)
        ELSE IF s0.is_acquiring THEN s0
        ELSE IF ThreadIsRunning(s0)
        THEN Dp5ReportError(ClearThreadWorkerRefs(Dp5StopAcquisition(s0, o)), o)
        ELSE IF FreeSlot(s0) = NoWorker THEN s0
        ELSE Dp5Spawn(s0, preset, o)

\* ------------------------------------------ single-acquisition manager, part 2
\* start_acquisition_and_save without the check of line 47.
AcqStartAcquisitionAndSaveNoBusyCheck(s, dur, path, o) ==
    LET error == \/ ~s.is_connected
                 \/ s.is_acquiring
                 \/ dur # "pos"
                 \/ ~(path /\ o.isdir)
        call == [e |-> "start_acquisition_and_save", dur |-> dur,
                 path |-> path, isdir |-> o.isdir, ret |-> ~error]
        s0 == [s EXCEPT !.ev = Append(@, call)]
    IN  IF error THEN s0
        ELSE
          LET s1 == [s0 EXCEPT !.acq_running = TRUE, !.acq_error_reason = "",
                               !.spectrum_saved_successfully = FALSE,
                               !.acq_duration = dur,
                               !.acq_save_filepath = path,
                               !.acq_runs = @ + 1, !.aobs = NoAcqObs]
          IN  Dp5StartAcquisition(AcqLog(s1, "acq_started", TRUE),
                                  PresetOf(dur), o)

\* SingleAcquisitionManager.start_acquisition_and_save; path: the file path is
\* not empty, o.isdir: its directory exists.  The call is recorded with its
\* arguments and the value it returns.  start_acquisition raises nothing, so
\* line 90 is not reached.
AcqStartAcquisitionAndSave(s, dur, path, o) ==
    LET error == \/ ~s.is_connected
                 \/ s.is_acquiring
                 \/ dur # "pos"
                 \/ ~(path /\ o.isdir)
        call == [e |-> "start_acquisition_and_save", dur |-> dur,
                 path |-> path, isdir |-> o.isdir,
                 ret |-> ~(s.acq_running \/ error)]
        s0 == [s EXCEPT !.ev = Append(@, call)]
    IN  IF s0.acq_running \/ error THEN s0
        ELSE
          LET s1 == [s0 EXCEPT !.acq_running = TRUE, !.acq_error_reason = "",
                               !.spectrum_saved_successfully = FALSE,
                               !.acq_duration = dur,
                               !.acq_save_filepath = path,
                               !.acq_runs = @ + 1, !.aobs = NoAcqObs]
          IN  Dp5StartAcquisition(AcqLog(s1, "acq_started", TRUE),
                                  PresetOf(dur), o)

\* DP5Controller._handle_worker_status
HandleWorkerStatus(s, o) ==
    [s EXCEPT !.last_status_data = TRUE,
              !.status_data = Head(s.statuses), !.statuses = Tail(@)]

\* DP5Controller._handle_worker_spectrum
HandleWorkerSpectrum(s, o) ==
    [s EXCEPT !.last_spectrum_data = TRUE,
              !.spectrum_data = Head(s.payloads), !.payloads = Tail(@)]

\* DP5Controller._handle_worker_error
HandleWorkerError(s, o) == SetAcquiring(Dp5ReportError(s, o), FALSE, o)

\* The controller's slot for one queued worker signal.
Handle(s, kind, o) ==
    CASE kind = "status" -> HandleWorkerStatus(s, o)
      [] kind = "spectrum" -> HandleWorkerSpectrum(s, o)
      [] kind = "error" -> HandleWorkerError(s, o)
      [] OTHER -> HandleWorkerFinished(s, o)

\* --------------------------------------------------------- Mini-X controller
\* _set_controller_running without the stop_monitoring() of its last line
MinixSetControllerRunningKeepsTimer(s, running) ==
    IF s.is_controller_app_running = running THEN s
    ELSE IF running THEN [s EXCEPT !.is_controller_app_running = TRUE]
    ELSE [s EXCEPT !.is_controller_app_running = FALSE,
                   !.minix_connected = FALSE, !.hv_on = FALSE]

\* MiniXController._set_controller_running
MinixSetControllerRunning(s, running) ==
    IF s.is_controller_app_running = running THEN s
    ELSE IF running THEN [s EXCEPT !.is_controller_app_running = TRUE]
    ELSE [s EXCEPT !.is_controller_app_running = FALSE,
                   !.minix_connected = FALSE, !.hv_on = FALSE,
                   !.monitoring = FALSE]

\* _update_internal_state taking every status for a disconnected tube
MinixUpdateInternalStateNeverReady(s, ready) ==
    [s EXCEPT !.minix_connected = FALSE, !.hv_on = s.devHV]

\* MiniXController._update_internal_state; ready: the monitor's status is
\* ControllerReady or MiniXReady.  The monitor's HV flag is the tube's state.
MinixUpdateInternalState(s, ready) ==
    [s EXCEPT !.minix_connected = ready, !.hv_on = s.devHV]

\* MiniXController._poll_status;
\* out: "ready" | "other" | "status_err" | "not_running" | "exc"
MinixPollStatus(s, out, o) ==
    LET Polled(s1) ==
            [s1 EXCEPT !.ev = Append(@, [e |-> "poll", out |-> out,
                                         was_running |-> s.is_controller_app_running,
                                         was_monitoring |-> s.monitoring,
                                         running |-> s1.is_controller_app_running,
                                         connected |-> s1.minix_connected,
                                         hv |-> s1.hv_on,
                                         monitoring |-> s1.monitoring])]
    IN  IF ~s.is_controller_app_running
        THEN IF s.monitoring
             THEN MinixSetControllerRunning([s EXCEPT !.monitoring = FALSE], FALSE)
             ELSE s
        ELSE CASE out = "ready" -> MinixUpdateInternalState(s, TRUE)
               [] out = "other" -> MinixUpdateInternalState(s, FALSE)
               [] out = "not_running" ->
                     Polled(MinixSetControllerRunning(MinixReportError(s, o), FALSE))
               [] out = "status_err" ->
                     Polled([MinixReportError(s, o) EXCEPT !.minix_connected = FALSE,
                                                           !.hv_on = FALSE])
               [] OTHER -> MinixReportError(s, o)

\* MiniXController.connect_hardware; out = <<first, send, second>>: the status
\* the controller application holds at the first and at the second
\* get_monitor_data ("not_running": the application is gone) and what
\* send_command(mxcStartMiniX) does ("ok" | "disabled").  get_monitor_data
\* raises StatusError for NoDevicesAttached and ControllerNotRunningError for
\* a missing application.
MinixConnectHardware(s, out, o) ==
    LET Raises(st) == st \in {"not_running", "NoDevicesAttached"}
        Ready(st) == st \in {"ControllerReady", "Ready"}
        Called(s1, last, sends, error) ==
            [s1 EXCEPT !.ev = Append(@, [e |-> "connect_hardware", last |-> last,
                                         sends |-> sends, error |-> error,
                                         connected |-> s1.minix_connected])]
        Connected(last, sends) ==
            Called(MinixUpdateInternalState([s EXCEPT !.minix_connected = TRUE],
                                            Ready(last)),
                   last, sends, FALSE)
        Failed(last, sends) ==
            Called(MinixReportError([s EXCEPT !.minix_connected = FALSE], o),
                   last, sends, TRUE)
    IN  IF ~s.is_controller_app_running THEN MinixReportError(s, o)
        ELSE IF s.minix_connected THEN s
        ELSE IF Raises(out[1]) THEN Failed("none", 0)
        ELSE IF out[1] = "ApplicationReady"
        THEN IF out[2] # "ok" \/ Raises(out[3]) THEN Failed(out[1], 1)
             ELSE IF Ready(out[3]) THEN Connected(out[3], 1)
             ELSE Failed(out[3], 1)
        ELSE IF Ready(out[1]) THEN Connected(out[1], 0)
        ELSE Failed(out[1], 0)

\* MiniXController.disconnect_hardware; out: "ok" | "exc" (mxcExit), poll: the
\* outcome of the immediate _poll_status
MinixDisconnectHardware(s, out, poll, o) ==
    LET Called(sent) ==
            [s EXCEPT !.ev = Append(@, [e |-> "disconnect_hardware",
                                        running |-> s.is_controller_app_running,
                                        connected |-> s.minix_connected,
                                        sent |-> sent, poll |-> poll])]
    IN  IF ~s.is_controller_app_running THEN MinixReportError(Called("none"), o)
        ELSE IF out = "ok"
        THEN MinixPollStatus([Called("ok") EXCEPT !.minix_connected = FALSE,
                                                  !.hv_on = FALSE,
                                                  !.devHV = FALSE], poll, o)
        ELSE [MinixReportError(Called("exc"), o) EXCEPT !.minix_connected = FALSE,
                                                        !.hv_on = FALSE]

\* MiniXController.start_controller_app; out: "started" | "failed" | "exc".
\* start_monitoring starts the timer and polls at once.
MinixStartControllerApp(s, out, poll, o) ==
    IF s.is_controller_app_running THEN s
    ELSE IF out = "started"
    THEN MinixPollStatus([MinixSetControllerRunning(s, TRUE)
                            EXCEPT !.monitoring = TRUE], poll, o)
    ELSE MinixReportError(MinixSetControllerRunning(s, FALSE), o)

\* close_controller_app whose except branch only reports the error.
MinixCloseControllerAppNoForce(s, exit, close, o) ==
    LET Called(r) ==
            [r EXCEPT !.ev = Append(@, [e |-> "close_controller_app",
                                        running |-> s.is_controller_app_running,
                                        connected |-> s.minix_connected,
                                        hv_on |-> s.hv_on, close |-> close])]
        Exit(r) == IF r.minix_connected /\ exit = "ok"
                   THEN [r EXCEPT !.devHV = FALSE] ELSE r
    IN  IF ~s.is_controller_app_running THEN Called(s)
        ELSE IF close = "ok"
        THEN [MinixSetControllerRunning(Exit(Called([s EXCEPT !.monitoring = FALSE])),
                                        FALSE)
                EXCEPT !.minix_connected = FALSE, !.hv_on = FALSE]
        ELSE MinixReportError(Exit(Called([s EXCEPT !.monitoring = FALSE])), o)

\* MiniXController.close_controller_app; exit: the outcome of mxcExit (sent
\* only if connected, errors ignored), close: "ok" | "exc", the outcome of
\* close_controller_application.
MinixCloseControllerApp(s, exit, close, o) ==
    LET Called(r) ==
            [r EXCEPT !.ev = Append(@, [e |-> "close_controller_app",
                                        running |-> s.is_controller_app_running,
                                        connected |-> s.minix_connected,
                                        hv_on |-> s.hv_on, close |-> close])]
        Exit(r) == IF r.minix_connected /\ exit = "ok"
                   THEN [r EXCEPT !.devHV = FALSE] ELSE r
        Forced(r) == [MinixSetControllerRunning(r, FALSE)
                        EXCEPT !.minix_connected = FALSE, !.hv_on = FALSE]
    IN  IF ~s.is_controller_app_running THEN Called(s)
        ELSE IF close = "ok"
        THEN Forced(Exit(Called([s EXCEPT !.monitoring = FALSE])))
        ELSE Forced(MinixReportError(Exit(Called([s EXCEPT !.monitoring = FALSE])), o))

\* ------------------------------------------------- sequence manager, part 2
\* request_safe_hv_on.emit() of the sequence manager: the main window's slot
\* runs at once; whether it ended the run is kept.
SeqRequestSafeHvOn(s, o) ==
    LET Asked(t) == [t EXCEPT !.obs.hv_ab = s.seq_running /\ ~t.seq_running]
    IN  Asked(MainSafeHvOn([s EXCEPT !.obs.hv_req = TRUE,
                                     !.obs.hv_off = FALSE], o))

\* SequenceManager.start_sequence.  The call is recorded with what its
\* validation found and the value it returns (line 98, the only return after
\* the validation).
SeqStartSequence(s, repetitions, dur, continuous, folder, o) ==
    IF s.seq_running THEN s
    ELSE
      LET error == \/ ~s.minix_connected
                   \/ ~s.is_connected
                   \/ s.is_acquiring
                   \/ repetitions <= 0
                   \/ dur # "pos"
                   \/ ~(folder /\ o.isdir)
          s0 == [s EXCEPT !.obs = [NoObs EXCEPT !.valid = ~error,
                                                !.phase = "begin"],
                          !.runs = @ + 1,
                          !.ev = Append(@, [e |-> "start_sequence",
                                            error |-> error, ret |-> TRUE])]
          s1 == IF error THEN Log(s0, "aborted", 0) ELSE s0
          s2 == [s1 EXCEPT !.seq_running = TRUE, !.error_reason = "",
                           !.current_rep = 0, !.total_reps = repetitions,
                           !.duration = dur, !.minix_continuous = continuous,
                           !.save_folder = folder]
          s3 == Log(s2, "started", 0)
      IN  IF continuous
          THEN Push(SeqRequestSafeHvOn(s3, o), "start_sequence")
          ELSE [s3 EXCEPT !.pending = @ + 1, !.obs.own = @ + 1]

\* SequenceManager._run_next_step, lines 141-153: start the acquisition.
SeqStartRep(s, o) ==
    IF ~s.is_connected THEN SeqAbort(s, o)
    ELSE
      LET Started(t) ==
              IF CallMet(s) = "spawned" THEN [t EXCEPT !.obs.open = TRUE] ELSE t
          Rep(t) == [t EXCEPT !.ev = Append(@, [e |-> "rep_start",
                                                running |-> t.seq_running,
                                                hv_ab |-> t.obs.hv_ab,
                                                met |-> CallMet(t)])]
          Step1(t) == IF CallMet(t) = "spawned" THEN SeqStepTo(t, "acq_start") ELSE t
      IN  Started(Dp5StartAcquisition(Step1(Rep(s)), PresetOf(s.duration), o))

\* SequenceManager._run_next_step
SeqRunNextStep(s, o) ==
    IF ~s.seq_running \/ s.error_reason # "" THEN SeqFinalize(s, o)
    ELSE
      LET s1 == [s EXCEPT !.current_rep = @ + 1,
                          !.obs.own = IF @ > 0 THEN @ - 1 ELSE -1]
      IN  IF s1.current_rep > s1.total_reps THEN SeqFinalize(s1, o)
          ELSE
            LET s2 == Log(s1, "step_starting", s1.current_rep)
            IN  IF ~s2.minix_continuous
                THEN Push(SeqRequestSafeHvOn(SeqStepTo(s2, "hv_on"), o),
                          "run_next_step")
                ELSE SeqStartRep(s2, o)

\* The code that follows a _wait_with_events call, by the method that waits.
AfterWait(s, f, o) ==
    LET Then(t) ==
            IF f.then = "disc_clear"
            THEN [t EXCEPT !.last_spectrum_data = FALSE, !.spectrum_data = NoArray,
                           !.last_status_data = FALSE, !.status_data = NoArray]
            ELSE t
    IN  Then(CASE f.k = "start_sequence" ->
                      [s EXCEPT !.pending = @ + 1,
                                !.obs.own = IF f.run = s.runs THEN @ + 1 ELSE @]
               [] f.k = "run_next_step" -> SeqStartRep(s, o)
               [] OTHER -> SeqPauseOrProceed(s, f.run = s.runs))

\* MainWindow._ui_stop_all_acquisitions
MainUiStopAllAcquisitions(s, o) ==
    LET Fallback(s1) ==
            IF ~(s.seq_running \/ s1.acq_running)
            THEN Dp5StopAcquisition(s1, o)
            ELSE AcqStop(s1, o)
    IN  Fallback(SeqStop(s, o))

\* _ui_start_sequence without the check of the single-acquisition manager
\* (lines 235-237).
MainUiStartSequenceNoBusyCheck(s, repetitions, dur, continuous, folder, o) ==
    SeqStartSequence(s, repetitions, dur, continuous, folder, o)

\* MainWindow._ui_start_sequence
MainUiStartSequence(s, repetitions, dur, continuous, folder, o) ==
    IF s.acq_running THEN s
    ELSE SeqStartSequence(s, repetitions, dur, continuous, folder, o)

\* MainWindow._ui_start_single_shot_acquisition; entered: the user confirmed
\* both dialogs.  The duration dialog yields at least 0.1 s and an empty path
\* counts as a cancel, so the manager is called with a positive duration and
\* a path that is not empty.
MainUiStartSingleShotAcquisition(s, entered, o) ==
    IF s.seq_running \/ s.acq_running \/ ~s.is_connected \/ ~entered THEN s
    ELSE AcqStartAcquisitionAndSave(s, "pos", TRUE, o)

\* ------------------------------------------------------------------ actions
\* The state a step starts from: ev tells what the latest step did.
S0 == [State EXCEPT !.ev = <<>>]

\* A step is taken only if its result fits the bounds.
Fits(r) ==
    /\ Len(r.queue) <= MaxQueue
    /\ r.pending <= MaxPending
    /\ r.runs <= MaxRunsAgain
    /\ r.acq_runs <= MaxAcqRuns
    /\ Len(r.stack) <= MaxStack
    /\ \A i \in 1..Len(r.ev) :
          r.ev[i].e = "start_acquisition" => r.ev[i].met # "overflow"

Step(r) == Fits(r) /\ Commit(r)

\* Sets of oracles: U user replies, H HV command outcomes, S save outcomes,
\* D isdir outcomes, B buffer allocation outcomes.
Pick(U, H, S, D, B) == [user : U, hv : H, save : S, isdir : D, buf : B]

Ok == {"ok"}
HvOuts == {"ok", "rejected"}
AllOracles == [user |-> BOOLEAN, hv |-> HvOuts, save |-> BOOLEAN,
               isdir |-> BOOLEAN, buf |-> BOOLEAN]
OkOracles == [user |-> {TRUE}, hv |-> Ok, save |-> {TRUE},
              isdir |-> {TRUE}, buf |-> {TRUE}]

\* The outcomes of the worker's hardware calls, per step of run().
AllOuts == [cfg |-> {"ok", "fail"}, pret |-> {"ok", "fail"},
            enable |-> {"ok", "fail"}, status |-> {"ok", "exc", "attr"},
            spec |-> {"ok", "bad", "exc", "attr"},
            final |-> {"ok", "bad", "exc"}, td |-> {"ok", "exc"}]
OkOuts == [cfg |-> Ok, pret |-> Ok, enable |-> Ok, status |-> Ok,
           spec |-> Ok, final |-> Ok, td |-> Ok]

\* --- the worker thread
RunEnter(w) == wk[w].pc = "created" /\ Step(WRunEnter(S0, w))

SendConfig(w, X) ==
    /\ wk[w].pc = "send_config"
    /\ \E out \in X.cfg : Step(WSendConfig(S0, w, out))

SendPret(w, X) ==
    /\ wk[w].pc = "send_pret"
    /\ \E out \in X.pret : Step(WSendPret(S0, w, out))

Enable(w, X) ==
    /\ wk[w].pc = "enable"
    /\ \E out \in X.enable : Step(WEnable(S0, w, out))

LoopTop(w) == wk[w].pc = "loop_top" /\ Step(WLoopTop(S0, w))

PollStatus(w, X) ==
    /\ wk[w].pc = "poll_status"
    /\ \E out \in X.status : Step(WPollStatus(S0, w, out))

FinalSpec(w, X) ==
    /\ wk[w].pc = "final_spec"
    /\ \E out \in X.final : Step(WFinalSpec(S0, w, out))

PollSpec(w, X) ==
    /\ wk[w].pc = "poll_spec"
    /\ \E out \in X.spec : Step(WPollSpec(S0, w, out))

Teardown(w, X) ==
    /\ wk[w].pc = "teardown"
    /\ \E st \in X.td, dis \in X.td : Step(WTeardown(S0, w, st, dis))

ClearRunning(w) == wk[w].pc = "post_finish" /\ Step(WClearRunning(S0, w))

\* The analyzer reaches its preset time and stops by itself.
HwPresetReached ==
    /\ devMCA /\ devPreset = "timed"
    /\ Step([S0 EXCEPT !.devMCA = FALSE])

\* --- the GUI thread's event loop
\* A queued worker signal is delivered to the controller's slot.
Deliver(O) ==
    /\ queue # <<>>
    /\ \E o \in Pick({TRUE}, O.hv, O.save, O.isdir, {TRUE}) :
          Step(Handle([S0 EXCEPT !.queue = Tail(@)], Head(queue), o))

\* A QTimer.singleShot(_run_next_step) fires.
TimerRunNextStep(O) ==
    /\ pending > 0
    /\ \E o \in Pick(O.user, O.hv, {TRUE}, {TRUE}, O.buf) :
          Step(SeqRunNextStep([S0 EXCEPT !.pending = @ - 1], o))

\* The innermost _wait_with_events returns.
ResumeWait(O) ==
    /\ stack # <<>>
    /\ \E o \in Pick({TRUE}, O.hv, {TRUE}, {TRUE}, O.buf) :
          Step(AfterWait([S0 EXCEPT !.stack = SubSeq(@, 1, Len(@) - 1)],
                         stack[Len(stack)], o))

\* The Mini-X monitor timer fires.
MonitorTick(P, O) ==
    /\ monitoring
    /\ \E out \in P, o \in Pick({TRUE}, O.hv, {TRUE}, {TRUE}, {TRUE}) :
          Step(MinixPollStatus(S0, out, o))

PollOuts == {"ready", "other", "status_err", "not_running", "exc"}

\* --- the user, through the window.  A button is enabled by
\* update_state() of the two tabs; the window's state is taken to be current
\* whenever a click is handled.
Busy == is_acquiring \/ seq_running \/ acq_running

\* The session is followed until its last run has been started; from then on
\* the user only presses Stop.
SessionOpen == runs + acq_runs < MaxRuns

UiStartSequence(O) ==
    /\ is_connected /\ ~Busy /\ SessionOpen
    /\ \E repetitions \in 0..MaxReps, dur \in {"pos", "nonpos"},
          continuous \in BOOLEAN, folder \in {TRUE},
          o \in Pick(O.user, O.hv, {TRUE}, O.isdir, {TRUE}) :
          Step(MainUiStartSequence(S0, repetitions, dur, continuous, folder, o))

\* The SINGLE button (acquisition_tab_widget.py line 215).
UiStartSingleShot(O) ==
    /\ is_connected /\ ~Busy /\ SessionOpen
    /\ \E entered \in BOOLEAN, o \in Pick({TRUE}, O.hv, {TRUE}, O.isdir, O.buf) :
          Step(MainUiStartSingleShotAcquisition(S0, entered, o))

\* The Start button again, after the session's last run has ended.
UiStartAgain(O) ==
    /\ is_connected /\ ~Busy /\ ~SessionOpen
    /\ \E repetitions \in 0..MaxReps, dur \in {"pos", "nonpos"},
          continuous \in BOOLEAN, folder \in {TRUE},
          o \in Pick(O.user, O.hv, {TRUE}, O.isdir, {TRUE}) :
          Step(MainUiStartSequence(S0, repetitions, dur, continuous, folder, o))

UiStopAll(O) ==
    /\ Busy
    /\ \E o \in Pick({TRUE}, O.hv, {TRUE}, {TRUE}, {TRUE}) :
          Step(MainUiStopAllAcquisitions(S0, o))

UiDp5Connect(R) ==
    /\ ~is_connected /\ ~Busy /\ SessionOpen
    /\ \E out \in R, st \in R : Step(Dp5Connect(S0, out, st, OkOracle))

UiDp5Disconnect ==
    /\ is_connected /\ ~Busy /\ SessionOpen
    /\ \E out \in {"ok", "exc"} : Step(Dp5Disconnect(S0, out, OkOracle))

UiLoadConfig ==
    /\ is_connected /\ ~Busy /\ SessionOpen
    /\ \E path \in BOOLEAN, out \in {"ok", "fail"}, st \in {"ok", "fail"} :
          Step(Dp5LoadConfig(S0, path, out, st, OkOracle))

UiClearData ==
    /\ is_connected /\ ~Busy /\ SessionOpen
    /\ \E out \in {"ok", "exc"}, st \in {"ok", "fail"} :
          Step(Dp5ClearData(S0, out, st, OkOracle))

\* The two buttons again, at any time they are enabled.
PressLoadConfig ==
    /\ is_connected /\ ~Busy
    /\ \E path \in BOOLEAN, out \in {"ok", "fail"}, st \in {"ok", "fail"} :
          Step(Dp5LoadConfig(S0, path, out, st, OkOracle))

PressClearData ==
    /\ is_connected /\ ~Busy
    /\ \E out \in {"ok", "exc"}, st \in {"ok", "fail"} :
          Step(Dp5ClearData(S0, out, st, OkOracle))

UiMinixConnect(R) ==
    /\ is_controller_app_running /\ ~minix_connected /\ ~Busy /\ SessionOpen
    /\ \E out \in R :
          Step(MinixConnectHardware(S0, <<"ApplicationReady", "ok", out>>, OkOracle))

UiMinixDisconnect ==
    /\ is_controller_app_running /\ minix_connected /\ ~Busy /\ SessionOpen
    /\ \E out \in {"ok", "exc"}, poll \in PollOuts :
          Step(MinixDisconnectHardware(S0, out, poll, OkOracle))

\* --- callers of the Mini-X controller's public methods, in any order
ClientMinixStartApp ==
    \E out \in {"started", "failed", "exc"}, poll \in PollOuts :
        Step(MinixStartControllerApp(S0, out, poll, OkOracle))

ClientMinixCloseApp ==
    \E exit \in {"ok", "exc"}, close \in {"ok", "exc"} :
        Step(MinixCloseControllerApp(S0, exit, close, OkOracle))

ClientMinixConnect ==
    LET Status == {"ApplicationReady", "ControllerReady", "Ready",
                   "NoDevicesAttached", "PortCLOSED", "not_running"}
    IN  \E first \in Status, send \in {"ok", "disabled"}, second \in Status :
            Step(MinixConnectHardware(S0, <<first, send, second>>, OkOracle))

ClientMinixDisconnect ==
    \E out \in {"ok", "exc"}, poll \in PollOuts :
        Step(MinixDisconnectHardware(S0, out, poll, OkOracle))

ClientMinixHvOn ==
    \E hv \in HvOuts : Step(MinixSetHvOn(S0, [OkOracle EXCEPT !.hv = hv]))

ClientMinixHvOff ==
    \E hv \in HvOuts : Step(MinixSetHvOff(S0, [OkOracle EXCEPT !.hv = hv]))

\* --- callers of the DP5 controller's public methods, in any order
ClientStart ==
    \E preset \in {"timed", "off"}, b \in BOOLEAN :
        Step(Dp5StartAcquisition(S0, preset, [OkOracle EXCEPT !.buf = b]))

ClientStop == Step(Dp5StopAcquisition(S0, OkOracle))

ClientConnect ==
    \E out \in {"ok", "fail"}, st \in {"ok", "fail"} :
        Step(Dp5Connect(S0, out, st, OkOracle))

ClientDisconnect ==
    \E out \in {"ok", "exc"} : Step(Dp5Disconnect(S0, out, OkOracle))

\* --- callers of the single-acquisition manager's methods, in any order
ClientAcqStart ==
    \E dur \in {"pos", "nonpos"}, path \in BOOLEAN,
       o \in Pick({TRUE}, Ok, {TRUE}, BOOLEAN, BOOLEAN) :
        Step(AcqStartAcquisitionAndSave(S0, dur, path, o))

ClientAcqStop == Step(AcqStop(S0, OkOracle))

ClientAcqFinalize == Step(AcqFinalize(S0))

\* --- _finalize called on an idle orchestrator; the call is recorded in ev
CallSeqFinalize(O) ==
    /\ ~seq_running
    /\ \E o \in Pick({TRUE}, O.hv, {TRUE}, {TRUE}, {TRUE}) :
          Step(SeqFinalize([S0 EXCEPT !.ev = <<[e |-> "finalize", of |-> "seq"]>>], o))

CallAcqFinalize ==
    /\ ~acq_running
    /\ Step(AcqFinalize([S0 EXCEPT !.ev = <<[e |-> "finalize", of |-> "acq"]>>]))

\* --- the two start handlers invoked in any state; the call and the running
\* flags it found are recorded in ev
Pressed(of) ==
    [S0 EXCEPT !.ev = <<[e |-> "press", of |-> of,
                         seq |-> seq_running, acq |-> acq_running]>>]

PressStartSequence(O) ==
    /\ runs + acq_runs < MaxStarts
    /\ \E repetitions \in 1..MaxReps, continuous \in BOOLEAN,
          o \in Pick(O.user, O.hv, {TRUE}, O.isdir, {TRUE}) :
          Step(MainUiStartSequence(Pressed("sequence"), repetitions, "pos",
                                   continuous, TRUE, o))

PressSingleShot(O) ==
    /\ runs + acq_runs < MaxStarts
    /\ \E o \in Pick({TRUE}, O.hv, {TRUE}, O.isdir, O.buf) :
          Step(MainUiStartSingleShotAcquisition(Pressed("single"), TRUE, o))

\* --- any caller of save_last_spectrum
ClientSave ==
    \E sv \in BOOLEAN :
        Step(Dp5SaveLastSpectrum(S0, [OkOracle EXCEPT !.save = sv]).s)

\* --- the worker class alone: any caller constructs a worker when none is
\* alive, calls stop() at any moment, and the receiver drains the signals.
WorkerCreate ==
    /\ \A w \in Slots : wk[w].pc \in {"none", "done"}
    /\ \E cfg \in BOOLEAN, preset \in {"timed", "off"}, buf \in BOOLEAN :
          Step([S0 EXCEPT !.wk[FreeSlot(S0)] = NewWorker(cfg, preset, buf)])

WorkerStopCall ==
    \E w \in Slots : wk[w].pc \notin {"none", "done"} /\ Step(WorkerStop(S0, w))

\* The receiver's slots: it keeps the array of a spectrum_ready signal and
\* the struct of a status_ready signal.
Receive(s, kind) ==
    IF kind = "spectrum"
    THEN [s EXCEPT !.spectrum_data = Head(s.payloads), !.payloads = Tail(@)]
    ELSE IF kind = "status"
    THEN [s EXCEPT !.status_data = Head(s.statuses), !.statuses = Tail(@)]
    ELSE s

Drain == queue # <<>> /\ Step(Receive([S0 EXCEPT !.queue = Tail(@)], Head(queue)))

\* --- the content of published spectra: the device accumulates counts while
\* the analyzer is armed, and the receiver writes into the array it holds.
Scribble == MaxCount + 1

ValueOf(s, a) == IF a.of = NoWorker THEN a.val ELSE s.wk[a.of].data

HwCount ==
    /\ devMCA /\ devSpectrum < MaxCount
    /\ Step([S0 EXCEPT !.devSpectrum = @ + 1])

ConsumerMutate ==
    /\ spectrum_data # NoArray
    /\ ValueOf(State, spectrum_data) # Scribble
    /\ Step(IF spectrum_data.of = NoWorker
            THEN [S0 EXCEPT !.ev = <<[e |-> "mutate"]>>,
                            !.spectrum_data.val = Scribble]
            ELSE [S0 EXCEPT !.ev = <<[e |-> "mutate"]>>,
                            !.wk[spectrum_data.of].data = Scribble])

\* --- the worker thread in three strides: the setup of lines 73-149, one
\* iteration of the poll loop, and the exit through the finally block.
Enter(w) ==
    /\ wk[w].pc = "created"
    /\ LET r == WRunEnter(S0, w)
       IN  Step(IF r.wk[w].pc = "post_finish" THEN WClearRunning(r, w) ELSE r)

Setup(w, X) ==
    /\ wk[w].pc = "send_config"
    /\ \E c \in X.cfg, p \in X.pret, e \in X.enable :
          Step(WEnable(WSendPret(WSendConfig(S0, w, c), w, p), w, e))

Iterate(w, X) ==
    /\ wk[w].pc = "loop_top" /\ wk[w].running /\ wk[w].acq_started
    /\ \E st \in X.status :
          LET r == WPollStatus(WLoopTop(S0, w), w, st)
          IN  CASE r.wk[w].pc = "poll_spec" ->
                     \E sp \in X.spec : Step(WPollSpec(r, w, sp))
                [] r.wk[w].pc = "final_spec" ->
                     \E sp \in X.final : Step(WFinalSpec(r, w, sp))
                [] OTHER -> Step(r)

Exit(w, X) ==
    /\ \/ wk[w].pc = "teardown"
       \/ wk[w].pc = "loop_top" /\ ~(wk[w].running /\ wk[w].acq_started)
    /\ \E st \in X.td, dis \in X.td :
          LET r == IF wk[w].pc = "loop_top" THEN WLoopTop(S0, w) ELSE S0
          IN  Step(WClearRunning(WTeardown(r, w, st, dis), w))

\* ----------------------------------------------------------- specifications
WorkerSteps(X) ==
    \E w \in Slots :
        \/ RunEnter(w)
        \/ SendConfig(w, X)
        \/ SendPret(w, X)
        \/ Enable(w, X)
        \/ LoopTop(w)
        \/ PollStatus(w, X)
        \/ FinalSpec(w, X)
        \/ PollSpec(w, X)
        \/ Teardown(w, X)
        \/ ClearRunning(w)

WorkerNext(X) ==
    \E w \in Slots :
        \/ Enter(w)
        \/ Setup(w, X)
        \/ Iterate(w, X)
        \/ Exit(w, X)

\* The worker class under any caller, interleaved at every hardware call.
NextWorker ==
    \/ WorkerSteps(AllOuts)
    \/ HwPresetReached
    \/ WorkerCreate
    \/ WorkerStopCall
    \/ Drain

InitDP5 == Init /\ ~is_controller_app_running

\* The worker class with a receiver that writes into the spectra it is given.
NextCopy ==
    \/ WorkerSteps(AllOuts)
    \/ HwPresetReached
    \/ HwCount
    \/ WorkerCreate
    \/ WorkerStopCall
    \/ Drain
    \/ ConsumerMutate

SpecCopy == InitDP5 /\ [][NextCopy]_vars

SpecWorker == InitDP5 /\ [][NextWorker]_vars

\* The whole program: the user, both controllers, the sequence manager.
Next ==
    \/ WorkerNext(AllOuts)
    \/ HwPresetReached
    \/ Deliver(AllOracles)
    \/ TimerRunNextStep(AllOracles)
    \/ ResumeWait(AllOracles)
    \/ MonitorTick(PollOuts, AllOracles)
    \/ UiStartSequence(AllOracles)
    \/ UiStartSingleShot(AllOracles)
    \/ UiStopAll(AllOracles)
    \/ UiDp5Connect({"ok", "fail"})
    \/ UiDp5Disconnect
    \/ UiLoadConfig
    \/ UiClearData
    \/ UiMinixConnect({"Ready", "PortCLOSED"})
    \/ UiMinixDisconnect

Spec == Init /\ [][Next]_vars

\* A session with one sequence run and its scheduling: the worker thread
\* runs, the GUI thread's event loop delivers queued signals, fires the
\* single-shot timers and returns from _wait_with_events, and the analyzer
\* reaches its preset.  The user may decline HV, press Stop or disconnect, and
\* a save or an HV command may fail; nothing obliges the user to act.
NextSeqLive ==
    \/ WorkerNext(OkOuts)
    \/ HwPresetReached
    \/ Deliver(AllOracles)
    \/ TimerRunNextStep(AllOracles)
    \/ ResumeWait(AllOracles)
    \/ MonitorTick({"ready"}, OkOracles)
    \/ UiStartSequence(AllOracles)
    \/ UiStopAll(OkOracles)
    \/ UiDp5Connect({"ok"})
    \/ UiDp5Disconnect
    \/ UiMinixConnect({"Ready"})

\* Deliver(AllOracles) can make a step: its guard holds and a result fits the
\* bounds and differs from the current state.
CanDeliver ==
    /\ queue # <<>>
    /\ \E o \in Pick({TRUE}, HvOuts, BOOLEAN, BOOLEAN, {TRUE}) :
          LET r == Handle([S0 EXCEPT !.queue = Tail(@)], Head(queue), o)
          IN  Fits(r) /\ r # State

\* TimerRunNextStep(AllOracles) can make a step.
CanTimer ==
    /\ pending > 0
    /\ \E o \in Pick(BOOLEAN, HvOuts, {TRUE}, {TRUE}, BOOLEAN) :
          LET r == SeqRunNextStep([S0 EXCEPT !.pending = @ - 1], o)
          IN  Fits(r) /\ r # State

\* ResumeWait(AllOracles) can make a step.
CanResume ==
    /\ stack # <<>>
    /\ \E o \in Pick({TRUE}, HvOuts, {TRUE}, {TRUE}, BOOLEAN) :
          LET r == AfterWait([S0 EXCEPT !.stack = SubSeq(@, 1, Len(@) - 1)],
                             stack[Len(stack)], o)
          IN  Fits(r) /\ r # State

\* Weak fairness of the worker thread and of the analyzer, and of the three
\* kinds of GUI-thread step with the enabling condition written out.
SpecSeqLive ==
    /\ Init
    /\ [][NextSeqLive]_vars
    /\ WF_vars(WorkerNext(OkOuts))
    /\ WF_vars(HwPresetReached)
    /\ ([]<>(~CanDeliver) \/ []<><<Deliver(AllOracles)>>_vars)
    /\ ([]<>(~CanTimer) \/ []<><<TimerRunNextStep(AllOracles)>>_vars)
    /\ ([]<>(~CanResume) \/ []<><<ResumeWait(AllOracles)>>_vars)

\* The DP5 controller and its workers under arbitrary callers.  Of what the
\* worker's hardware calls return, every outcome that changes which signals
\* the controller gets is kept.
NextDP5 ==
    \/ WorkerNext([AllOuts EXCEPT !.cfg = {"ok"}, !.spec = {"ok", "exc"},
                                  !.final = {"ok"}, !.td = {"ok"}])
    \/ HwPresetReached
    \/ Deliver(OkOracles)
    \/ ClientStart
    \/ ClientStop
    \/ ClientConnect
    \/ ClientDisconnect

SpecDP5 == InitDP5 /\ [][NextDP5]_vars

\* The whole program when every hardware and file call succeeds, the user
\* confirms HV and never presses Stop or Disconnect.
NextNormal ==
    \/ WorkerNext(OkOuts)
    \/ HwPresetReached
    \/ Deliver(OkOracles)
    \/ TimerRunNextStep(OkOracles)
    \/ ResumeWait(OkOracles)
    \/ MonitorTick({"ready"}, OkOracles)
    \/ UiStartSequence(OkOracles)
    \/ UiDp5Connect({"ok"})
    \/ UiMinixConnect({"Ready"})

SpecSeqNormal == Init /\ [][NextNormal]_vars

\* The single-acquisition manager, the DP5 controller and its workers under
\* arbitrary callers.
NextAcq ==
    \/ WorkerNext(AllOuts)
    \/ HwPresetReached
    \/ Deliver(AllOracles)
    \/ ClientAcqStart
    \/ ClientAcqStop
    \/ ClientAcqFinalize
    \/ ClientConnect
    \/ ClientDisconnect

SpecAcq == InitDP5 /\ [][NextAcq]_vars

\* A session with a single acquisition in which every hardware and file call
\* succeeds; the user may press Stop.  The worker thread and the GUI thread's
\* event loop keep running, the analyzer reaches its preset; nothing obliges
\* the user to act.
NextSingle ==
    \/ WorkerNext(OkOuts)
    \/ HwPresetReached
    \/ Deliver(OkOracles)
    \/ UiStartSingleShot(OkOracles)
    \/ UiStopAll(OkOracles)
    \/ UiDp5Connect({"ok"})
    \/ UiLoadConfig
    \/ UiClearData

SpecSingleLive ==
    /\ InitDP5
    /\ [][NextSingle]_vars
    /\ WF_vars(WorkerNext(OkOuts))
    /\ WF_vars(HwPresetReached)
    /\ WF_vars(Deliver(OkOracles))

\* A session with a further sequence run: every hardware and file call
\* succeeds and the user confirms HV, but may press Stop.
NextAgain ==
    \/ WorkerNext(OkOuts)
    \/ HwPresetReached
    \/ Deliver(OkOracles)
    \/ TimerRunNextStep(OkOracles)
    \/ ResumeWait(OkOracles)
    \/ MonitorTick({"ready"}, OkOracles)
    \/ UiStartSequence(OkOracles)
    \/ UiStartAgain(OkOracles)
    \/ UiStopAll(OkOracles)
    \/ UiDp5Connect({"ok"})
    \/ UiMinixConnect({"Ready"})

SpecAgain == Init /\ [][NextAgain]_vars

\* The whole program, with _finalize also called on idle orchestrators.
NextFinalize ==
    \/ Next
    \/ CallSeqFinalize(AllOracles)
    \/ CallAcqFinalize

SpecFinalize == Init /\ [][NextFinalize]_vars

\* A session whose start handlers are invoked in any state: every hardware
\* and file call succeeds and the user confirms HV, but may press Stop.
NextStarts ==
    \/ WorkerNext(OkOuts)
    \/ HwPresetReached
    \/ Deliver(OkOracles)
    \/ TimerRunNextStep(OkOracles)
    \/ ResumeWait(OkOracles)
    \/ PressStartSequence(OkOracles)
    \/ PressSingleShot(OkOracles)
    \/ UiStopAll(OkOracles)
    \/ UiDp5Connect({"ok"})
    \/ UiMinixConnect({"Ready"})

SpecStarts == Init /\ [][NextStarts]_vars

\* The single-acquisition manager and the controller's save_last_spectrum
\* under arbitrary callers.
NextSave ==
    \/ NextAcq
    \/ ClientSave

SpecSave == InitDP5 /\ [][NextSave]_vars

\* The Mini-X controller under arbitrary callers, with its monitor timer.
NextMinix ==
    \/ MonitorTick(PollOuts, AllOracles)
    \/ ClientMinixStartApp
    \/ ClientMinixCloseApp
    \/ ClientMinixConnect
    \/ ClientMinixDisconnect
    \/ ClientMinixHvOn
    \/ ClientMinixHvOff

SpecMinix == Init /\ [][NextMinix]_vars

\* A session with one single acquisition whose worker may fail, and the
\* Load Config and Clear Data buttons pressed whenever they are enabled.
NextClear ==
    \/ WorkerNext(AllOuts)
    \/ HwPresetReached
    \/ Deliver(AllOracles)
    \/ UiStartSingleShot(OkOracles)
    \/ UiStopAll(OkOracles)
    \/ UiDp5Connect({"ok"})
    \/ PressLoadConfig
    \/ PressClearData

SpecClear == InitDP5 /\ [][NextClear]_vars

\* --------------------------------------------------------------- properties
\* What the latest step did.
Did(e) == {i \in 1..Len(ev) : ev[i].e = e}

\* run() entered and finished not yet emitted.
Alive(w) ==
    wk[w].pc \in {"send_config", "send_pret", "enable", "loop_top",
                  "poll_status", "poll_spec", "final_spec", "teardown"}

\* C1: in continuous mode the Mini-X controller's HV-on state is false when
\* _finalize has run for the run, however the run ended.
C1_HvOffAfterFinalize ==
    \A i \in Did("finalized") : ev[i].cont => ~ev[i].hv

\* C2: a run aborted after it requested HV-on has had an HV-off command
\* issued for it when its _finalize returns, in either mode.
C2_HvOffIssuedOnAbort ==
    \A i \in Did("finalized") : (ev[i].ab /\ ev[i].req) => ev[i].off

\* C3: at most one worker run is alive at any time.
C3_AtMostOneAlive == Cardinality({w \in Slots : Alive(w)}) <= 1

\* C4: a start_acquisition call made while the controller is acquiring
\* creates no worker and no thread and leaves the acquiring state and both
\* handles as they were.
C4_StartWhileAcquiring ==
    [][(is_acquiring /\ Did("start_acquisition")' # {}) =>
         /\ is_acquiring'
         /\ worker' = worker
         /\ thread' = thread
         /\ \A w \in Slots : wk[w].pc = "none" => wk'[w].pc = "none"]_vars

C4_Witness == (\E i \in Did("start_acquisition") : ev[i].met = "busy") /\ worker # NoWorker /\ is_acquiring

\* C5: when a worker whose EnableMCA succeeded emits finished, its last status
\* read showed the analyzer disarmed or DisableMCA was called in the finally
\* block; where that call returned, the analyzer is disarmed.
C5_NotLeftAcquiring ==
    \A w \in Slots :
        (wk[w].pc = "post_finish" /\ wk[w].acq_started) =>
            /\ wk[w].td \in {"clear", "disable", "disable_failed"}
            /\ wk[w].td \in {"clear", "disable"} => ~devMCA

C5_Witness ==
    \E w \in Slots :
        /\ wk[w].pc = "post_finish" /\ wk[w].acq_started
        /\ wk[w].td = "disable" /\ wk[w].stopped

\* C6: every run() emits finished exactly once and nothing after it.
C6_FinishedOnceAndLast ==
    \A w \in Slots :
        /\ wk[w].nfin <= 1 /\ ~wk[w].afterfin
        /\ wk[w].pc = "post_finish" => wk[w].nfin = 1
        /\ wk[w].pc \notin {"post_finish", "done"} => wk[w].nfin = 0

C6_Witness ==
    \E w \in Slots :
        wk[w].pc = "post_finish" /\ wk[w].nfin = 1 /\ ~wk[w].acq_started

\* C7: once stop() has been called on a worker, its poll loop begins at most
\* one more iteration.
C7_StopHonoured == \A w \in Slots : wk[w].stopped => wk[w].iters <= 1

\* C8 as stated: after a status with bit 5 of RAW[35] clear the loop iterates
\* no more and exactly one more spectrum is published before finished.
C8_ExactlyOneMoreSpectrum ==
    \A w \in Slots :
        wk[w].zero => /\ wk[w].ziter = 0
                      /\ wk[w].pc = "post_finish" => wk[w].zspec = 1

\* C8, amended: after such a status the loop iterates no more, and one more
\* spectrum is published exactly when the final RequestSpectrumData succeeds
\* with a channel count in range; otherwise none is.
C8_OneMoreSpectrumIfRead ==
    \A w \in Slots :
        wk[w].zero =>
            /\ wk[w].ziter = 0
            /\ wk[w].pc = "post_finish" =>
                 wk[w].zspec = (IF wk[w].zfinal = "ok" THEN 1 ELSE 0)

C8_Witness ==
    \E w \in Slots :
        wk[w].pc = "post_finish" /\ wk[w].zero /\ wk[w].zspec = 1

\* C9: a run has emitted exactly one terminal event when it is finalized, the
\* manager is then idle with no error reason, and a terminal event is never
\* followed by more of the run.
C9_OneTerminalEvent ==
    /\ \A i \in Did("finalized") :
          ev[i].nterm = 1 /\ ~seq_running /\ error_reason = ""
    /\ obs.nterm > 0 => ~seq_running

\* C10: when every call succeeds, a run that passed validation with N
\* repetitions announces step i as its i-th step, is never aborted and ends
\* with sequence_finished(N).
C10_NormalRunFinishes ==
    /\ \A i \in Did("step_starting") : ev[i].n = current_rep
    /\ \A i \in Did("finalized") :
          ev[i].valid => ~ev[i].err /\ ev[i].n = ev[i].total

\* C11: when sequence_finished(k) is emitted, k exceeds neither the number of
\* acquisitions the run started and saw complete nor the number of spectra
\* the run saved.
C11_FinishedCountBacked ==
    \A i \in Did("finished") :
        ev[i].n <= ev[i + 1].done /\ ev[i].n <= ev[i + 1].saved

\* C12: a start_sequence call with a failing precondition returns False, leaves
\* the orchestrator idle, emits no sequence_started, requests no HV-on and
\* starts no acquisition.
C12_RejectedStartDoesNothing ==
    \A i \in Did("start_sequence") :
        ev[i].error =>
            /\ ~ev[i].ret
            /\ ~seq_running
            /\ Did("started") = {}
            /\ ~obs.hv_req
            /\ Did("start_acquisition") = {}

\* C13: a single-acquisition run that emitted acquisition_started has, when it
\* is finalized, emitted acquisition_finished exactly once and last; with
\* acquisition_finished(True) it emitted no acquisition_aborted, otherwise it
\* emitted acquisition_aborted exactly once.
C13_OneFinishedEvent ==
    \A i \in Did("acq_finalized") :
        ev[i].run.started =>
            /\ ev[i].run.nfin = 1 /\ ~ev[i].run.ab_late
            /\ ev[i].run.nab = (IF ev[i].run.fin_ok THEN 0 ELSE 1)

\* C14: a single-acquisition run aborted while the spectrometer is acquiring
\* has asked the worker to stop and saves no spectrum, and it leads to the
\* manager being idle after an acquisition_finished(False).
C14_AbortedRunEnds ==
    /\ [](aobs.acq_abort => aobs.stop_req /\ aobs.saves = 0)
    /\ [](\A i \in Did("acq_finalized") :
              ev[i].run.acq_abort => ev[i].run.nfin = 1 /\ ~ev[i].run.fin_ok)
    /\ (acq_running /\ aobs.acq_abort) ~> ~acq_running

\* C15: a finalized single-acquisition run emitted acquisition_finished(True)
\* if and only if the acquiring state went false with no error or abort
\* recorded and save_last_spectrum then returned success; such a run emitted
\* acquisition_started and called save_last_spectrum exactly once.
C15_SuccessIffCleanAndSaved ==
    \A i \in Did("acq_finalized") :
        /\ ev[i].run.fin_ok <=> (ev[i].run.clean /\ ev[i].run.save_ok)
        /\ ev[i].run.fin_ok => ev[i].run.started /\ ev[i].run.saves = 1

C15_Witness ==
    \E i \in Did("acq_finalized") :
        ev[i].run.fin_ok /\ ev[i].run.clean /\ ev[i].run.saves = 1

\* C16: a start_acquisition_and_save call made while a run is in progress, or
\* with the spectrometer not connected or acquiring, a duration that is not
\* positive, an empty path or a missing directory, returns False, emits no
\* acquisition_started, acquisition_aborted or acquisition_finished, starts
\* no acquisition and leaves the running flag and the stored duration and
\* path as they were.
C16_RejectedStartDoesNothing ==
    [][\A i \in Did("start_acquisition_and_save")' :
          (\/ acq_running
           \/ ~is_connected
           \/ is_acquiring
           \/ ev'[i].dur # "pos"
           \/ ~ev'[i].path
           \/ ~ev'[i].isdir) =>
              /\ ~ev'[i].ret
              /\ Did("acq_started")' = {}
              /\ Did("acq_aborted")' = {}
              /\ Did("acq_finished")' = {}
              /\ Did("start_acquisition")' = {}
              /\ wk' = wk /\ is_acquiring' = is_acquiring
              /\ acq_running' = acq_running
              /\ acq_duration' = acq_duration
              /\ acq_save_filepath' = acq_save_filepath]_vars

C16_Witness ==
    \E i \in Did("start_acquisition_and_save") :
        ~ev[i].ret /\ acq_running /\ ev[i].dur = "pos" /\ ev[i].path

C18_NeverBothRunning ==
    ~(seq_running /\ acq_running)

\* The SINGLE handler was invoked while a sequence was running, and the
\* sequence is still the only run.
C18_Witness ==
    /\ \E i \in Did("press") : ev[i].of = "single" /\ ev[i].seq
    /\ seq_running /\ ~acq_running

\* C19: a spectrum published by the worker is a copy: when the receiver
\* writes into a spectrum it was given, no worker's buffer changes and no
\* spectrum published later (still queued) changes its value; and a spectrum
\* published at any time holds what the device delivered for that request.
C19_PublishedSpectrumIsCopy ==
    [][/\ Did("mutate")' # {} =>
            /\ \A w \in Slots : wk'[w].data = wk[w].data
            /\ payloads' = payloads
            /\ \A i \in 1..Len(payloads) :
                  ValueOf(State, payloads[i])' = ValueOf(State, payloads[i])
       /\ Len(payloads') > Len(payloads) =>
            ValueOf(State, payloads[Len(payloads)])' = devSpectrum]_vars

\* The receiver has written into a spectrum while the worker that published
\* it is still acquiring with a filled buffer and a later spectrum is queued.
C19_Witness ==
    /\ Did("mutate") # {}
    /\ spectrum_data.val = Scribble
    /\ payloads # <<>>
    /\ \E w \in Slots : Alive(w) /\ wk[w].data > 0

\* C20: save_last_spectrum always returns (None, False or True, it raises
\* nothing); called with no spectrum cached it does not return success, emits
\* error_occurred and does not call SaveMCADataToFile; and it returns success
\* only if SaveMCADataToFile was called and returned.
C20_SaveLastSpectrum ==
    \A i \in Did("save_last_spectrum") :
        /\ ev[i].ret \in {"None", "False", "True"}
        /\ ~ev[i].cached =>
              /\ ev[i].ret # "True"
              /\ ev[i].gateway = "none"
              /\ \E j \in Did("error_occurred") : j > i
        /\ ev[i].ret = "True" => ev[i].gateway = "returned"

\* save_last_spectrum was called with nothing cached.
C20_Witness ==
    \E i \in Did("save_last_spectrum") : ~ev[i].cached /\ ev[i].ret = "None"

\* C21: whenever the controller application is not running, the Mini-X
\* controller is not connected and its HV-on state is false; and when
\* close_controller_app has returned, app-running, connected and HV-on are
\* all false, whether the close call succeeded or raised.
C21_NotRunningMeansOff ==
    /\ ~is_controller_app_running => ~minix_connected /\ ~hv_on
    /\ Did("close_controller_app") # {} =>
          ~is_controller_app_running /\ ~minix_connected /\ ~hv_on

\* close_controller_app was called on a connected controller with HV on, and
\* the close call raised.
C21_Witness ==
    \E i \in Did("close_controller_app") :
        ev[i].running /\ ev[i].connected /\ ev[i].hv_on /\ ev[i].close = "exc"

\* C22: when disconnect_hardware, called with the controller application
\* running, has returned, the exit command was sent whatever the connected
\* state was, and connected and HV-on are false, whether or not sending
\* failed and whatever the device reports.
C22_DisconnectForcesOff ==
    \A i \in Did("disconnect_hardware") :
        ev[i].running =>
            ev[i].sent # "none" /\ ~minix_connected /\ ~hv_on

\* C23: clear_data, load_config and request_single_status_update make no
\* gateway call while a worker's run() is executing (entered, finished not
\* yet emitted), also after that worker has published an error.
C23_NoGatewayCallDuringRun ==
    Did("gateway") # {} => \A w \in Slots : ~Alive(w)

\* C24: a manager that is running observes acquisition_state_changed(False)
\* only when the controller's worker has left its poll loop, and no spectrum
\* is saved while that worker is in its poll loop.
C24_AcquiringFalseAfterLoop ==
    /\ \A i \in Did("acq_state_observed") : ~ev[i].acquiring => ~ev[i].inloop
    /\ Did("save_last_spectrum") # {} => ~InPollLoop(State)

\* C25: whenever the controller can be read, between handlers and inside the
\* slots of acquisition_state_changed of a running manager, acquiring implies that the worker and
\* the thread handle are both set and refer to the same allocated pair.
C25_AcquiringHasLivePair ==
    /\ is_acquiring => worker # NoWorker /\ thread = worker
    /\ \A i \in Did("acq_state_observed") :
           ev[i].acquiring => ev[i].worker # NoWorker /\ ev[i].thread = ev[i].worker

\* C26: when disconnect() was called on a connected controller that was
\* acquiring and has returned, the controller is disconnected, acquiring is
\* false and the worker and thread references are dropped.
C26_DisconnectWhileAcquiring ==
    \A i \in Did("disconnect_while_acquiring") :
        ev[i].returned =>
            /\ ~ev[i].connected
            /\ ~ev[i].acquiring
            /\ ev[i].worker = NoWorker
            /\ ev[i].thread = NoWorker

\* C27: a start_acquisition call that finds the controller connected and idle
\* with the thread of a previous run still alive invokes that run's worker's
\* stop() after its entry, and allocates no new worker (the old thread never
\* ends).
C27_StaleThreadIsStopped ==
    [][\A i \in 1..Len(ev') :
          ev'[i].e = "start_acquisition" /\ ev'[i].met = "stale" =>
              /\ \E j \in (i + 1)..Len(ev') : ev'[j].e = "worker_stop"
              /\ \A w \in Slots : wk[w].pc = "none" => wk'[w].pc = "none"]_vars

\* C28: when the HV-on request of the sequence manager has aborted the run,
\* the manager starts no spectrometer acquisition afterwards.
C28_NoAcquisitionAfterHvAbort ==
    \A i \in Did("rep_start") : ev[i].hv_ab => ev[i].met # "spawned"

\* C29: within a run the steps of a repetition follow each other in the
\* order HV-on request (per-repetition mode), start of acquisition, acquiring
\* false, save, HV-off (per-repetition mode), pausing; the acquisition of
\* repetition i+1 is started only when repetition i has been saved, and no
\* repetition index is saved twice.
C29_RepetitionOrder ==
    LET StepOrder(step, from, cont) ==
            CASE step = "hv_on" -> ~cont /\ from \in {"begin", "pausing"}
              [] step = "acq_start" ->
                     from \in (IF cont THEN {"begin", "pausing"} ELSE {"hv_on"})
              [] step = "acq_false" -> from = "acq_start"
              [] step = "save" -> from = "acq_false"
              [] step = "hv_off" -> ~cont /\ from = "save"
              [] OTHER -> from = (IF cont THEN "save" ELSE "hv_off")
    IN  \A i \in Did("seq_step") :
            /\ StepOrder(ev[i].step, ev[i].from, ev[i].cont)
            /\ ev[i].step = "acq_start" /\ ev[i].rep > 1 => ev[i].saved = ev[i].rep - 1
            /\ ev[i].step = "save" => ev[i].saved < ev[i].rep

\* C30: after a fatal setup failure (the config file given and not sent, or
\* a finite preset command not sent) EnableMCA is not called and the loop
\* condition's acq_started is false; when nothing but PRET=OFF failed
\* EnableMCA is called and the worker stands at the loop condition with
\* acq_started true; the poll loop is entered only by a worker whose setup
\* succeeded.
C30_EnableOnlyAfterSetup ==
    LET SetupFatal(i) ==
            \E j \in 1..i :
                /\ ev[j].w = ev[i].w
                /\ \/ ev[j].e = "w_config" /\ ev[j].failed
                   \/ ev[j].e = "w_pret" /\ ev[j].failed /\ ev[j].preset # "off"
        SetupOnlyPretOff(i) ==
            /\ ~SetupFatal(i)
            /\ ~ev[i].raised
            /\ \E j \in 1..i : /\ ev[j].w = ev[i].w
                               /\ ev[j].e = "w_pret" /\ ev[j].failed
                               /\ ev[j].preset = "off"
    IN  /\ \A i \in Did("w_enable") :
               /\ SetupFatal(i) => ~ev[i].called /\ ~wk[ev[i].w].acq_started
               /\ SetupOnlyPretOff(i) =>
                      /\ ev[i].called
                      /\ wk[ev[i].w].acq_started
                      /\ wk[ev[i].w].pc = "loop_top"
        /\ \A i \in Did("w_loop") : ev[i].config_ok

C30_Witness ==
    \E i \in Did("w_enable"), j \in Did("w_pret") :
        /\ ev[j].w = ev[i].w /\ ev[j].failed /\ ev[j].preset = "off"
        /\ ev[i].called
        /\ wk[ev[i].w].acq_started /\ wk[ev[i].w].running

\* C31: a status struct that was published, whether still queued or held
\* by its receiver, shows what it showed when it was published, whatever the
\* worker has polled since.
C31_PublishedStatusIsSnapshot ==
    LET Shown(a) == IF a.of = NoWorker THEN a.val ELSE wk[a.of].sbuf
    IN  /\ status_data # NoArray => Shown(status_data) = status_data.val
        /\ \A i \in 1..Len(statuses) : Shown(statuses[i]) = statuses[i].val

\* C32: while the controller is disconnected the cached status and the
\* cached spectrum are both empty, also after signals of a stopped run were
\* delivered.
C32_DisconnectedCachesEmpty ==
    ~is_connected => ~last_status_data /\ ~last_spectrum_data

\* C33: a connect() that leaves the spectrometer controller connected has
\* filled the status cache by the time it returns, also when the status
\* fetch after ConnectToDefaultDPP fails.
C33_ConnectedHasStatus ==
    [][(~is_connected /\ is_connected') => last_status_data']_vars

\* C34: a Mini-X poll whose monitor read fails because the controller
\* application is not running ends with the application marked stopped, the
\* hardware disconnected, HV off and the monitor timer stopped; a poll in
\* which the device reports a critical status ends disconnected with HV off,
\* the application flag and the monitor timer as they were.
C34_PollFailureStates ==
    \A i \in Did("poll") :
        /\ ev[i].out = "not_running" =>
               ~ev[i].running /\ ~ev[i].connected /\ ~ev[i].hv /\ ~ev[i].monitoring
        /\ ev[i].out = "status_err" =>
               /\ ~ev[i].connected /\ ~ev[i].hv
               /\ ev[i].running = ev[i].was_running
               /\ ev[i].monitoring = ev[i].was_monitoring

\* a poll fired by the active monitor timer got a critical status from the
\* device while the application was running
C34_Witness ==
    \E i \in Did("poll") :
        ev[i].out = "status_err" /\ ev[i].was_monitoring /\ ev[i].monitoring

\* C35: a connect_hardware call made with the application running and the
\* hardware not connected ends connected exactly when the last status it read
\* is ControllerReady or Ready; when it ends disconnected it has emitted an
\* error; it calls send_command(mxcStartMiniX) at most once.
C35_ConnectHardwareOutcome ==
    \A i \in Did("connect_hardware") :
        /\ ev[i].connected <=> ev[i].last \in {"ControllerReady", "Ready"}
        /\ ~ev[i].connected => ev[i].error
        /\ ev[i].sends <= 1

\* a call that sent the start command and then read a ready status
C35_Witness ==
    \E i \in Did("connect_hardware") :
        ev[i].sends = 1 /\ ev[i].last = "Ready" /\ minix_connected

\* C36: a _run_next_step call advances a sequence run only on a timer that
\* this run scheduled: a run is never advanced more often than it has
\* scheduled _run_next_step, also when a timer of an earlier run is still
\* outstanding at its start.
C36_OnlyOwnTimersAdvance ==
    obs.own >= 0

\* C37: a start_acquisition call that finds the controller connected and idle
\* finds no thread of an earlier run alive, that run having emitted finished
\* and its thread having ended with the references cleared: the call spawns
\* a new worker and reports no error.
C37_NextStartSpawns ==
    \A i \in Did("start_acquisition") :
        /\ ev[i].met # "stale"
        /\ ev[i].met = "spawned" => is_acquiring /\ worker # NoWorker

\* C38: a sequence run that is running leads to the sequence manager being
\* idle, when timers fire and queued worker signals are delivered (the
\* fairness of the specification) and every started acquisition ends (again
\* and again no worker is between its setup and its teardown).
C38_RunReturnsToIdle ==
    ([]<>(\A w \in Slots : ~Alive(w))) => (seq_running ~> ~seq_running)

\* a validated run that started an acquisition and saw it complete has been
\* finalized and the manager is idle
C38_Witness ==
    \E i \in Did("finalized") : ev[i].valid /\ ev[i].done >= 1 /\ ~seq_running

\* C39: the Mini-X controller never reports HV on while it reports the
\* hardware as disconnected.
C39_HvOnImpliesConnected ==
    hv_on => minix_connected

====
